---- MODULE Spec2Model ----
(***************************************************************************)
(* Model of the RFSN safety kernel (rfsn_kernel): the controller tick with *)
(* its arbiter, absolute clamp and dynamics clamp, the lease and E-STOP    *)
(* entry points, the monitor aggregator, the safety injector, the actuator *)
(* builder, the ledger and the gate.                                       *)
(*                                                                         *)
(* Numbers.  Python floats are modelled by integers.  Times are counted in *)
(* units of 0.0001 s (TicksPerSecond units per second), so the constants   *)
(* 0.001 s, 0.1 s and 0.0001 s of the code are 10, 1000 and 1 units.       *)
(* Acceleration limits are in value units per time unit, so that           *)
(* acc_limit * dt is the same product as in the code.  Rounding of         *)
(* floating-point arithmetic is not modelled.                              *)
(*                                                                         *)
(* Optional values.  Optional[X] is a sequence of length at most one:      *)
(* None is << >> and a present value x is << x >>.                         *)
(*                                                                         *)
(* Dictionaries are functions; every dictionary of the code that is        *)
(* iterated is built in ascending order of the space name, so iteration is *)
(* modelled as iteration in SpaceOrder.                                    *)
(***************************************************************************)
EXTENDS Integers, Sequences, FiniteSets, TLC

VARIABLES ctrl, ledger, call

vars == <<ctrl, ledger, call>>

-----------------------------------------------------------------------------
(* Generic helpers *)

None == << >>

Some(x) == << x >>

IsNone(o) == o = << >>

Get(o) == o[1]

Min2(a, b) == IF a <= b THEN a ELSE b

Max2(a, b) == IF a >= b THEN a ELSE b

Abs(x) == IF x < 0 THEN -x ELSE x

Range(s) == { s[k] : k \in 1..Len(s) }

EmptyMap == [x \in {} |-> x]

\* dict.get(key): the value, or None
MapGet(m, key) == IF key \in DOMAIN m THEN Some(m[key]) ELSE None

\* sequences over S of length at most n
SeqsUpTo(S, n) == UNION { [1..k -> S] : k \in 0..n }

\* sorted(set of ints)
RECURSIVE SortedSeq(_)
SortedSeq(S) ==
    IF S = {} THEN << >>
    ELSE LET m == CHOOSE x \in S : \A y \in S : x <= y
         IN  <<m>> \o SortedSeq(S \ {m})

-----------------------------------------------------------------------------
(* controller_types.py *)

Spaces == {"arm", "legs", "base", "whole_body"}

\* ascending order of ControlSpace.value
SpaceOrder == <<"arm", "base", "legs", "whole_body">>

Kinds == {"JOINT_POSITION", "JOINT_VELOCITY", "JOINT_TORQUE"}

MaskedCommand(space, kind, dof_mask, values, source) ==
    [space |-> space, kind |-> kind, dof_mask |-> dof_mask,
     values |-> values, source |-> source]

\* MaskedCommand.__post_init__: the commands that can be constructed
ValidCommand(c) ==
    /\ Len(c.dof_mask) = Len(c.values)
    /\ Cardinality(Range(c.dof_mask)) = Len(c.dof_mask)
    /\ \A k \in 1..Len(c.dof_mask) : c.dof_mask[k] >= 0

CapabilityLease(seq, lease_id, issued_t, expiry_t, q_min, q_max, qd_abs_max, tau_abs_max, primary_authority) ==
    [seq |-> seq, lease_id |-> lease_id, issued_t |-> issued_t,
     expiry_t |-> expiry_t, q_min |-> q_min, q_max |-> q_max,
     qd_abs_max |-> qd_abs_max, tau_abs_max |-> tau_abs_max,
     primary_authority |-> primary_authority]

-----------------------------------------------------------------------------
(* safety.py *)

SafetyResult(ok, reason, code) == [ok |-> ok, reason |-> reason, code |-> code]

\* lease_active that forgets the start of the window
lease_active_no_start(lease, now_t) == now_t <= lease.expiry_t

lease_active(lease, now_t) ==
    lease.issued_t <= now_t /\ now_t <= lease.expiry_t

\* min(max(v, lo), hi)
ClampTo(v, lo, hi) == Min2(Max2(v, lo), hi)

\* ClampValues with the limits indexed by position k instead of by DOF index
ClampValuesByPosition(cmd, lo, hi) ==
    [k \in 1..Len(cmd.dof_mask) |-> ClampTo(cmd.values[k], lo[k], hi[k])]

\* the loop over enumerate(cmd.dof_mask); index i of the code is i + 1 here
ClampValues(cmd, lo, hi) ==
    [k \in 1..Len(cmd.dof_mask) |->
        ClampTo(cmd.values[k], lo[cmd.dof_mask[k] + 1], hi[cmd.dof_mask[k] + 1])]

Negated(v) == [k \in 1..Len(v) |-> -v[k]]

\* returns <<Optional[MaskedCommand], SafetyResult>>
clamp_masked_command_to_lease(cmd, lease) ==
    LET n == Len(lease.q_min)
        okres == SafetyResult(TRUE, "OK", "OK")
        withVals(vals) ==
            MaskedCommand(cmd.space, cmd.kind, cmd.dof_mask, vals, cmd.source)
    IN
    IF Len(lease.q_max) # n \/ Len(lease.qd_abs_max) # n
    THEN <<None, SafetyResult(FALSE, "Lease vectors inconsistent", "LEASE_SHAPE")>>
    ELSE IF \E k \in 1..Len(cmd.dof_mask) : cmd.dof_mask[k] >= n
    THEN <<None, SafetyResult(FALSE, "DOF index out of range", "DOF_OOB")>>
    ELSE IF cmd.kind = "JOINT_POSITION"
    THEN <<Some(withVals(ClampValues(cmd, lease.q_min, lease.q_max))), okres>>
    ELSE IF cmd.kind = "JOINT_VELOCITY"
    THEN <<Some(withVals(ClampValues(cmd, Negated(lease.qd_abs_max),
                                     lease.qd_abs_max))), okres>>
    ELSE IF cmd.kind = "JOINT_TORQUE"
    THEN IF IsNone(lease.tau_abs_max)
         THEN <<None, SafetyResult(FALSE, "Torque not permitted by lease",
                                   "TORQUE_NOT_ALLOWED")>>
         ELSE IF Len(Get(lease.tau_abs_max)) # n
         THEN <<None, SafetyResult(FALSE, "tau_abs_max shape mismatch",
                                   "LEASE_SHAPE")>>
         ELSE <<Some(withVals(ClampValues(cmd, Negated(Get(lease.tau_abs_max)),
                                          Get(lease.tau_abs_max)))), okres>>
    ELSE <<None, SafetyResult(FALSE, "Unknown command kind", "BAD_CMD_KIND")>>

\* prev_map.get(joint_idx): dict built from zip(prev.dof_mask, prev.values)
PrevVal(prev, joint_idx) ==
    IF \E j \in 1..Len(prev.dof_mask) : prev.dof_mask[j] = joint_idx
    THEN Some(prev.values[CHOOSE j \in 1..Len(prev.dof_mask) :
                              prev.dof_mask[j] = joint_idx])
    ELSE None

\* DynStep that limits only the increase
DynStepUpperOnly(curr_val, prev_val, max_step) ==
    Min2(curr_val, prev_val + max_step)

\* max(prev_val - max_step, min(curr_val, prev_val + max_step))
DynStep(curr_val, prev_val, max_step) ==
    Max2(prev_val - max_step, Min2(curr_val, prev_val + max_step))

\* 0.0001 s: clamp_dynamics rejects dt <= BadDtMax
BadDtMax == 1

\* prev_cmd is Optional[MaskedCommand]; returns <<Optional[MaskedCommand], SafetyResult>>
clamp_dynamics(cmd, prev_cmd, envelope, dt) ==
    IF IsNone(envelope.q_acc_abs_max)
    THEN <<Some(cmd), SafetyResult(TRUE, "No dynamics limits", "OK")>>
    ELSE IF dt <= BadDtMax
    THEN <<None, SafetyResult(FALSE, "Invalid time delta", "BAD_DT")>>
    ELSE IF IsNone(prev_cmd)
    THEN <<Some(cmd), SafetyResult(TRUE, "First tick", "OK")>>
    ELSE IF cmd.kind # Get(prev_cmd).kind
    THEN <<Some(cmd), SafetyResult(TRUE, "Mode switch reset", "OK")>>
    ELSE IF cmd.kind = "JOINT_VELOCITY"
    THEN LET prev == Get(prev_cmd)
             acc == Get(envelope.q_acc_abs_max)
             new_values ==
                 [k \in 1..Len(cmd.dof_mask) |->
                    LET pv == PrevVal(prev, cmd.dof_mask[k])
                    IN  IF IsNone(pv) THEN cmd.values[k]
                        ELSE DynStep(cmd.values[k], Get(pv),
                                     acc[cmd.dof_mask[k] + 1] * dt)]
         IN  <<Some(MaskedCommand(cmd.space, cmd.kind, cmd.dof_mask,
                                  new_values, cmd.source)),
               SafetyResult(TRUE, "Dynamics clamped", "OK")>>
    ELSE <<Some(cmd), SafetyResult(TRUE, "Dynamics skipped", "OK")>>

-----------------------------------------------------------------------------
(* arbiter.py *)

ArbiterDecision(ok, reason, selected_by_space) ==
    [ok |-> ok, reason |-> reason, selected_by_space |-> selected_by_space]

\* reason strings f"{msg} {space}" are kept as a record of their parts
ArbReason(msg, space) == [msg |-> msg, space |-> space]

\* by_space[space]: the proposals of one space, in list order
ProposalsOf(proposals, space) ==
    SelectSeq(proposals, LAMBDA p : p.space = space)

\* SafetyOf that sees a safety proposal only at the head of the list
SafetyOfHead(ps) ==
    IF ps # << >> /\ ps[1].source = "safety" THEN <<ps[1]>> ELSE << >>

\* SafetyOf that recognises no proposal as a safety proposal
SafetyOfNothing(ps) == SelectSeq(ps, LAMBDA p : p.source = "SAFETY")

\* safety = [p for p in ps if p.source == "safety"]
SafetyOf(ps) == SelectSeq(ps, LAMBDA p : p.source = "safety")

\* the command picked when safety proposals exist: safety[0]
PickSafety(safety) == safety[1]

\* EligibleOf that takes the first proposal of the space, whoever made it
EligibleOfFirst(ps, primary) == IF ps = << >> THEN << >> ELSE <<ps[1]>>

\* EligibleOf that admits every proposal of the space, whatever its source
EligibleOfAnySource(ps, primary) == SelectSeq(ps, LAMBDA p : p.source # "safety")

\* eligible = [p for p in ps if p.source == primary]
EligibleOf(ps, primary) == SelectSeq(ps, LAMBDA p : p.source = primary)

\* the loop over sorted(by_space.items()), from position i of SpaceOrder on,
\* with the selection made so far
RECURSIVE ArbLoop(_, _, _, _)
ArbLoop(lease, proposals, i, out) ==
    IF i > Len(SpaceOrder)
    THEN IF DOMAIN out = {}
         THEN ArbiterDecision(FALSE, ArbReason("No proposals selected", ""), EmptyMap)
         ELSE ArbiterDecision(TRUE, ArbReason("OK", ""), out)
    ELSE
    LET space == SpaceOrder[i]
        ps == ProposalsOf(proposals, space)
        safety == SafetyOf(ps)
        primary == MapGet(Get(lease.primary_authority), space)
        eligible == EligibleOf(ps, Get(primary))
    IN
    IF ps = << >>
    THEN ArbLoop(lease, proposals, i + 1, out)
    ELSE IF safety # << >>
    THEN IF Len(safety) # 1
         THEN ArbiterDecision(FALSE,
                  ArbReason("Ambiguous safety proposals in", space), EmptyMap)
         ELSE ArbLoop(lease, proposals, i + 1,
                      [s \in DOMAIN out \cup {space} |->
                          IF s = space THEN PickSafety(safety) ELSE out[s]])
    ELSE IF IsNone(primary)
    THEN ArbiterDecision(FALSE,
             ArbReason("No primary authority declared for", space), EmptyMap)
    ELSE IF Len(eligible) = 0
    THEN ArbLoop(lease, proposals, i + 1, out)
    ELSE IF Len(eligible) # 1
    THEN ArbiterDecision(FALSE,
             ArbReason("Ambiguous primary proposals in", space), EmptyMap)
    ELSE ArbLoop(lease, proposals, i + 1,
                 [s \in DOMAIN out \cup {space} |->
                     IF s = space THEN eligible[1] ELSE out[s]])

arbitrate_multi(lease, proposals) ==
    IF IsNone(lease.primary_authority)
    THEN ArbiterDecision(FALSE,
             ArbReason("No primary_authority map in lease", ""), EmptyMap)
    ELSE ArbLoop(lease, proposals, 1, EmptyMap)

-----------------------------------------------------------------------------
(* controller.py *)

\* ControllerState(): the state after construction
ControllerState ==
    [active_lease |-> None, active_envelope |-> None, estop |-> FALSE,
     last_commands |-> EmptyMap, last_tick_t |-> 0]

ControllerOutput(ok, reason, final_by_space) ==
    [ok |-> ok, reason |-> reason, final_by_space |-> final_by_space]

\* the reason strings of the controller, kept as a record of their parts:
\* f"{tag} {space}: {msg}" and f"DOF conflict: {sorted(overlap)}"
Reason(tag, space, msg, overlap) ==
    [tag |-> tag, space |-> space, msg |-> msg, overlap |-> overlap]

\* 0.001 s: the dt used when now_t - last_tick_t <= 0
DtFloor == 10

\* 0.1 s: the cap on dt
DtCap == 1000

\* step 2 of step_controller_multi
TickDt(now_t, last_tick_t) ==
    LET dt == now_t - last_tick_t
        dt1 == IF dt <= 0 THEN DtFloor ELSE dt
    IN  IF dt1 > DtCap THEN DtCap ELSE dt1

\* ClampSpace that lets a torque command through without the absolute clamp
ClampSpaceFreeTorque(c, lease, dt, space, cmd) ==
    LET abs == clamp_masked_command_to_lease(cmd, lease)
    IN  IF cmd.kind = "JOINT_TORQUE"
        THEN <<Some(cmd), Reason("OK", "", "", << >>)>>
        ELSE IF ~abs[2].ok \/ IsNone(abs[1])
        THEN <<None, Reason("Abs Clamp reject", space, abs[2].reason, << >>)>>
        ELSE <<abs[1], Reason("OK", "", "", << >>)>>

\* one iteration of the clamp loop (step 4): <<Optional[MaskedCommand], reason>>
ClampSpace(c, lease, dt, space, cmd) ==
    LET abs == clamp_masked_command_to_lease(cmd, lease)
        dyn == clamp_dynamics(Get(abs[1]), MapGet(c.last_commands, space),
                              Get(c.active_envelope), dt)
    IN  IF ~abs[2].ok \/ IsNone(abs[1])
        THEN <<None, Reason("Abs Clamp reject", space, abs[2].reason, << >>)>>
        ELSE IF ~IsNone(c.active_envelope)
        THEN IF ~dyn[2].ok \/ IsNone(dyn[1])
             THEN <<None, Reason("Dyn Clamp reject", space, dyn[2].reason, << >>)>>
             ELSE <<dyn[1], Reason("OK", "", "", << >>)>>
        ELSE <<abs[1], Reason("OK", "", "", << >>)>>

\* the spaces of a dictionary in iteration order
KeysInOrder(m) == SelectSeq(SpaceOrder, LAMBDA s : s \in DOMAIN m)

\* OverlapAt when used is never updated
OverlapAtNoUpdate(final, keys, i) ==
    Range(final[keys[i]].dof_mask) \cap {}

\* used.intersection(cmd.dof_mask) at position i of the conflict loop (step 5)
OverlapAt(final, keys, i) ==
    Range(final[keys[i]].dof_mask)
        \cap UNION { Range(final[keys[j]].dof_mask) : j \in 1..(i - 1) }

\* returns [ctrl |-> the state after the call, out |-> the ControllerOutput]
step_controller_multi(c, now_t, proposals) ==
    LET fail(cc, reason) ==
            [ctrl |-> cc, out |-> ControllerOutput(FALSE, reason, EmptyMap)]
        lease == Get(c.active_lease)
        dt == TickDt(now_t, c.last_tick_t)
        arb == arbitrate_multi(lease, proposals)
        sel == arb.selected_by_space
        keys == KeysInOrder(sel)
        clamped == [s \in DOMAIN sel |-> ClampSpace(c, lease, dt, s, sel[s])]
        badClamp == { i \in 1..Len(keys) : IsNone(clamped[keys[i]][1]) }
        firstBad == CHOOSE i \in badClamp : \A j \in badClamp : i <= j
        final_by_space == [s \in DOMAIN sel |-> Get(clamped[s][1])]
        conflicts == { i \in 1..Len(keys) : OverlapAt(final_by_space, keys, i) # {} }
        firstConflict == CHOOSE i \in conflicts : \A j \in conflicts : i <= j
    IN
    IF c.estop
    THEN fail(c, Reason("E-STOP active", "", "", << >>))
    ELSE IF IsNone(c.active_lease)
    THEN fail(c, Reason("No active lease", "", "", << >>))
    ELSE IF ~lease_active(lease, now_t)
    THEN fail([c EXCEPT !.active_lease = None],
              Reason("Lease expired", "", "", << >>))
    ELSE IF ~arb.ok
    THEN fail(c, Reason("Arbiter reject", arb.reason.space, arb.reason.msg, << >>))
    ELSE IF badClamp # {}
    THEN fail(c, clamped[keys[firstBad]][2])
    ELSE IF conflicts # {}
    THEN fail(c, Reason("DOF conflict", "", "",
                        SortedSeq(OverlapAt(final_by_space, keys, firstConflict))))
    ELSE [ctrl |-> [c EXCEPT !.last_commands = final_by_space,
                             !.last_tick_t = now_t],
          out |-> ControllerOutput(TRUE, Reason("OK", "", "", << >>),
                                   final_by_space)]

\* install_lease without the E-STOP check
install_lease_in_estop(c, lease, now_t, envelope) ==
    IF ~lease_active(lease, now_t)
    THEN [ctrl |-> c, out |-> FALSE]
    ELSE IF ~IsNone(c.active_lease) /\ lease.seq <= Get(c.active_lease).seq
    THEN [ctrl |-> c, out |-> FALSE]
    ELSE [ctrl |-> [c EXCEPT !.active_lease = Some(lease),
                             !.active_envelope = envelope],
          out |-> TRUE]

\* install_lease without the seq check
install_lease_any_seq(c, lease, now_t, envelope) ==
    IF c.estop
    THEN [ctrl |-> c, out |-> FALSE]
    ELSE IF ~lease_active(lease, now_t)
    THEN [ctrl |-> c, out |-> FALSE]
    ELSE [ctrl |-> [c EXCEPT !.active_lease = Some(lease),
                             !.active_envelope = envelope],
          out |-> TRUE]

\* returns [ctrl |-> the state after the call, out |-> the returned bool]
install_lease(c, lease, now_t, envelope) ==
    IF c.estop
    THEN [ctrl |-> c, out |-> FALSE]
    ELSE IF ~lease_active(lease, now_t)
    THEN [ctrl |-> c, out |-> FALSE]
    ELSE IF ~IsNone(c.active_lease) /\ lease.seq <= Get(c.active_lease).seq
    THEN [ctrl |-> c, out |-> FALSE]
    ELSE [ctrl |-> [c EXCEPT !.active_lease = Some(lease),
                             !.active_envelope = envelope],
          out |-> TRUE]

\* apply_estop that keeps the lease
apply_estop_keep_lease(c) == [c EXCEPT !.estop = TRUE]

apply_estop(c) == [c EXCEPT !.estop = TRUE, !.active_lease = None]

clear_estop(c) == [c EXCEPT !.estop = FALSE]

-----------------------------------------------------------------------------
(* monitors.py, safety_injector.py *)

SafetyLevels == {"NONE", "WARN", "STOP", "E_STOP"}

SafetyEvent(level, reason, affected_spaces) ==
    [level |-> level, reason |-> reason, affected_spaces |-> affected_spaces]

SafetyInjectorConfig(stop_kind, damping_gain, global_stop) ==
    [stop_kind |-> stop_kind, damping_gain |-> damping_gain,
     global_stop |-> global_stop]

\* SafetyInjectorConfig(): the default configuration
DefaultInjectorConfig == SafetyInjectorConfig("JOINT_VELOCITY", 0, TRUE)

\* target spaces that follow the affected map even under global_stop
TargetSpacesAffectedOnly(event, space_dofs, cfg) ==
    IF IsNone(event.affected_spaces) \/ DOMAIN Get(event.affected_spaces) = {}
    THEN DOMAIN space_dofs
    ELSE DOMAIN Get(event.affected_spaces) \cap DOMAIN space_dofs

\* the target spaces chosen by safety_injector, as a set (they are sorted next)
TargetSpaces(event, space_dofs, cfg) ==
    IF cfg.global_stop \/ IsNone(event.affected_spaces)
                       \/ DOMAIN Get(event.affected_spaces) = {}
    THEN DOMAIN space_dofs
    ELSE DOMAIN Get(event.affected_spaces) \cap DOMAIN space_dofs

\* the command emitted for one target space with a non-empty DOF tuple
StopCommand(space, dofs, cfg, use_damping, current_velocities) ==
    IF use_damping
    THEN MaskedCommand(space, "JOINT_TORQUE", dofs,
             [k \in 1..Len(dofs) |->
                 IF dofs[k] < Len(Get(current_velocities))
                 THEN -cfg.damping_gain * Get(current_velocities)[dofs[k] + 1]
                 ELSE 0],
             "safety")
    ELSE MaskedCommand(space, cfg.stop_kind, dofs,
                       [k \in 1..Len(dofs) |-> 0], "safety")

\* the loop over sorted(target_spaces), from position i of SpaceOrder on
RECURSIVE InjectLoop(_, _, _, _, _)
InjectLoop(targets, space_dofs, cfg, current_velocities, i) ==
    IF i > Len(SpaceOrder) THEN << >>
    ELSE
    LET space == SpaceOrder[i]
        use_damping == /\ cfg.damping_gain > 0
                       /\ ~IsNone(current_velocities)
                       /\ Len(Get(current_velocities)) > 0
        rest == InjectLoop(targets, space_dofs, cfg, current_velocities, i + 1)
    IN  IF space \in targets /\ space_dofs[space] # << >>
        THEN <<StopCommand(space, space_dofs[space], cfg, use_damping,
                           current_velocities)>> \o rest
        ELSE rest

safety_injector(event, space_dofs, cfg, current_velocities) ==
    IF event.level \in {"NONE", "WARN"}
    THEN << >>
    ELSE InjectLoop(TargetSpaces(event, space_dofs, cfg), space_dofs, cfg,
                    current_velocities, 1)

-----------------------------------------------------------------------------
(* aggregator.py *)
(* A str is a sequence of tokens, so that formatting and joining build     *)
(* sequences: f"{src}:{reason}" is <<src, ":">> \o reason.  active_events  *)
(* is a dict in insertion order: a sequence of <<source_id, event>> pairs. *)

\* the source ids of the monitors, in ascending (lexicographic) order
SourceOrder == <<"cam", "imu", "lidar">>

\* sep.join(parts)
RECURSIVE Join(_, _)
Join(parts, sep) ==
    IF parts = << >> THEN << >>
    ELSE IF Len(parts) = 1 THEN parts[1]
    ELSE parts[1] \o sep \o Join(Tail(parts), sep)

\* a severity map that ranks the levels by their names
severity_by_name(level) ==
    CASE level = "E_STOP" -> 0
      [] level = "NONE" -> 1
      [] level = "STOP" -> 2
      [] level = "WARN" -> 3

severity(level) ==
    CASE level = "NONE" -> 0
      [] level = "WARN" -> 1
      [] level = "STOP" -> 2
      [] level = "E_STOP" -> 3

\* MonitorRegistry.update: active_events[source_id] = event
update(active_events, source_id, event) ==
    IF \E k \in 1..Len(active_events) : active_events[k][1] = source_id
    THEN [k \in 1..Len(active_events) |->
            IF active_events[k][1] = source_id
            THEN <<source_id, event>> ELSE active_events[k]]
    ELSE Append(active_events, <<source_id, event>>)

\* sorted(active_events.items()): the keys are distinct, so the pairs are
\* ordered by source id
SortedItems(active_events) ==
    LET pos(src) == CHOOSE k \in 1..Len(SourceOrder) : SourceOrder[k] = src
        before(k) == { j \in 1..Len(active_events) :
                         pos(active_events[j][1]) < pos(active_events[k][1]) }
    IN  [i \in 1..Len(active_events) |->
            active_events[CHOOSE k \in 1..Len(active_events) :
                              Cardinality(before(k)) = i - 1]]

\* the affected_spaces merge of one event into affected_map
MergeAffected(affected_map, src, evt) ==
    IF /\ ~IsNone(evt.affected_spaces)
       /\ DOMAIN Get(evt.affected_spaces) # {}
       /\ severity(evt.level) >= severity("STOP")
    THEN LET a == Get(evt.affected_spaces)
         IN  [space \in DOMAIN affected_map \cup DOMAIN a |->
                IF space \notin DOMAIN a THEN affected_map[space]
                ELSE IF space \in DOMAIN affected_map
                THEN affected_map[space] \o <<";", src, ":">> \o a[space]
                ELSE <<src, ":">> \o a[space]]
    ELSE affected_map

\* the loop of aggregate over items, from position i on
RECURSIVE AggLoop(_, _, _, _, _)
AggLoop(items, i, worst_level, worst_reasons, affected_map) ==
    IF i > Len(items)
    THEN SafetyEvent(worst_level, Join(worst_reasons, <<" | ">>),
                     IF affected_map = EmptyMap THEN None ELSE Some(affected_map))
    ELSE
    LET src == items[i][1]
        evt == items[i][2]
        merged == MergeAffected(affected_map, src, evt)
    IN  IF severity(evt.level) > severity(worst_level)
        THEN AggLoop(items, i + 1, evt.level, <<(<<src, ":">> \o evt.reason)>>,
                     merged)
        ELSE IF severity(evt.level) = severity(worst_level) /\ evt.level # "NONE"
        THEN AggLoop(items, i + 1, worst_level,
                     Append(worst_reasons, <<src, ":">> \o evt.reason), merged)
        ELSE AggLoop(items, i + 1, worst_level, worst_reasons, merged)

\* an aggregate that walks the events in the order they were registered
aggregate_unsorted(active_events) ==
    IF active_events = << >>
    THEN SafetyEvent("NONE", <<"no_monitors">>, None)
    ELSE AggLoop(active_events, 1, "NONE", << >>, EmptyMap)

\* MonitorRegistry.aggregate
aggregate(active_events) ==
    IF active_events = << >>
    THEN SafetyEvent("NONE", <<"no_monitors">>, None)
    ELSE AggLoop(SortedItems(active_events), 1, "NONE", << >>, EmptyMap)

-----------------------------------------------------------------------------
(* hold_policy.py, actuators.py *)
(* The builder walks final_by_space and space_dofs in their insertion      *)
(* order (.items(), .values()) except in the command pass, which sorts.    *)
(* A dictionary argument is a function together with the sequence of its   *)
(* keys in insertion order (final_keys, dofs_keys).                        *)

\* default_hold_policy().preferred_hold_kind
default_hold_policy ==
    [arm |-> "JOINT_POSITION", legs |-> "JOINT_VELOCITY",
     base |-> "JOINT_VELOCITY", whole_body |-> "JOINT_VELOCITY"]

ActuatorTargets(q_des, qd_des, tau_des) ==
    [q_des |-> q_des, qd_des |-> qd_des, tau_des |-> tau_des]

\* reason strings f"{msg} {arg}" are kept as a record of their parts
BuildResult(ok, msg, arg, targets) ==
    [ok |-> ok, reason |-> [msg |-> msg, arg |-> arg], targets |-> targets]

allowed_kinds_by_space ==
    [arm |-> {"JOINT_POSITION", "JOINT_VELOCITY"}, legs |-> {"JOINT_VELOCITY"},
     base |-> {"JOINT_VELOCITY"}, whole_body |-> {"JOINT_VELOCITY"}]

\* an exclusivity test that only looks for WHOLE_BODY on its own
whole_body_exclusive_never(spaces_present) ==
    ("whole_body" \in spaces_present) /\ (Cardinality(spaces_present) > 4)

whole_body_exclusive(spaces_present) ==
    ("whole_body" \in spaces_present) /\ (Cardinality(spaces_present) > 1)

\* a mixed-kind policy that keeps torque exclusive whatever the flag says
mixed_kinds_allowed_exclusive(kinds_present, allow_safety_torque_stop) ==
    IF "JOINT_TORQUE" \in kinds_present
    THEN Cardinality(kinds_present) = 1
    ELSE TRUE

mixed_kinds_allowed(kinds_present, allow_safety_torque_stop) ==
    IF "JOINT_TORQUE" \in kinds_present
    THEN IF Cardinality(kinds_present) = 1 THEN TRUE
         ELSE allow_safety_torque_stop
    ELSE TRUE

\* a compatibility test whose torque exemption forgets the source
KindAllowedAnySource(space, cmd, allow_safety_torque_stop) ==
    \/ cmd.kind \in allowed_kinds_by_space[space]
    \/ allow_safety_torque_stop /\ cmd.kind = "JOINT_TORQUE"

\* the compatibility test of one command (the negation of the test in the
\* loop over final_by_space)
KindAllowed(space, cmd, allow_safety_torque_stop) ==
    \/ cmd.kind \in allowed_kinds_by_space[space]
    \/ /\ allow_safety_torque_stop
       /\ cmd.source = "safety"
       /\ cmd.kind = "JOINT_TORQUE"

\* the DOF indices that a walk over a dictionary of masks visits, in the
\* order of its keys: pairs <<space, index>>
RECURSIVE Visits(_, _)
Visits(masks, keys) ==
    IF keys = << >> THEN << >>
    ELSE LET space == Head(keys)
         IN  [k \in 1..Len(masks[space]) |-> <<space, masks[space][k]>>]
                 \o Visits(masks, Tail(keys))

\* the first position at which a sequence of booleans is TRUE, or 0
FirstPos(bad) ==
    IF \E k \in 1..Len(bad) : bad[k]
    THEN CHOOSE k \in 1..Len(bad) : bad[k] /\ \A j \in 1..(k - 1) : ~bad[j]
    ELSE 0

\* a HOLD pass that reserves a vector for every DOF of the space, commanded
\* or not
HoldNeedsAll(space_dofs, hold_policy, commanded, kind) ==
    \E space \in DOMAIN space_dofs \cap DOMAIN hold_policy :
        /\ hold_policy[space] = kind
        /\ space_dofs[space] # << >>

\* the HOLD pass allocates the vector of a kind: some space that prefers the
\* kind owns a DOF that no command masks
HoldNeeds(space_dofs, hold_policy, commanded, kind) ==
    \E space \in DOMAIN space_dofs \cap DOMAIN hold_policy :
        /\ hold_policy[space] = kind
        /\ \E k \in 1..Len(space_dofs[space]) :
              space_dofs[space][k] \notin commanded

\* the vector of a kind after the command pass: the commanded value where a
\* command of the kind masks the index, the initial value elsewhere
Written(final_by_space, kind, initial) ==
    [i \in 1..Len(initial) |->
        IF \E space \in DOMAIN final_by_space :
              /\ final_by_space[space].kind = kind
              /\ (i - 1) \in Range(final_by_space[space].dof_mask)
        THEN LET space == CHOOSE sp \in DOMAIN final_by_space :
                            /\ final_by_space[sp].kind = kind
                            /\ (i - 1) \in Range(final_by_space[sp].dof_mask)
                 cmd == final_by_space[space]
                 k == CHOOSE j \in 1..Len(cmd.dof_mask) : cmd.dof_mask[j] = i - 1
             IN  cmd.values[k]
        ELSE initial[i]]

build_actuator_targets_v2(final_by_space, now_q, dof_count, space_dofs, hold_policy, allow_safety_torque_stop, final_keys, dofs_keys) ==
    LET spaces_present == DOMAIN final_by_space
        order == final_keys
        bad_kind == FirstPos([k \in 1..Len(order) |->
                       \/ order[k] \notin DOMAIN allowed_kinds_by_space
                       \/ ~KindAllowed(order[k], final_by_space[order[k]],
                                       allow_safety_torque_stop)])
        kinds_present == { final_by_space[space].kind : space \in spaces_present }
        cmd_visits == Visits([space \in spaces_present |->
                                 final_by_space[space].dof_mask], final_keys)
        bad_cmd == FirstPos([k \in 1..Len(cmd_visits) |->
                      \/ cmd_visits[k][2] < 0
                      \/ cmd_visits[k][2] >= dof_count
                      \/ \E j \in 1..(k - 1) :
                            cmd_visits[j][2] = cmd_visits[k][2]])
        commanded == { cmd_visits[k][2] : k \in 1..Len(cmd_visits) }
        held == SelectSeq(dofs_keys, LAMBDA space : space \in DOMAIN hold_policy)
        hold_visits == Visits(space_dofs, held)
        bad_hold == FirstPos([k \in 1..Len(hold_visits) |->
                       \/ hold_visits[k][2] < 0
                       \/ hold_visits[k][2] >= dof_count
                       \/ /\ hold_visits[k][2] \notin commanded
                          /\ hold_policy[hold_visits[k][1]] \notin Kinds])
        zeros == [i \in 1..dof_count |-> 0]
        vector(kind, initial) ==
            IF \/ kind \in kinds_present
               \/ HoldNeeds(space_dofs, hold_policy, commanded, kind)
            THEN Some(Written(final_by_space, kind, initial))
            ELSE None
    IN
    IF dof_count <= 0
    THEN BuildResult(FALSE, "Invalid dof_count", "", None)
    ELSE IF Len(now_q) # dof_count
    THEN BuildResult(FALSE, "now_q length != dof_count", "", None)
    ELSE IF spaces_present = {}
    THEN BuildResult(FALSE, "No commands to build", "", None)
    ELSE IF whole_body_exclusive(spaces_present)
    THEN BuildResult(FALSE, "WHOLE_BODY is exclusive; other spaces present", "", None)
    ELSE IF bad_kind # 0
    THEN IF order[bad_kind] \notin DOMAIN allowed_kinds_by_space
         THEN BuildResult(FALSE, "Unknown control space:", order[bad_kind], None)
         ELSE BuildResult(FALSE, "Kind not allowed in",
                          <<final_by_space[order[bad_kind]].kind, order[bad_kind]>>,
                          None)
    ELSE IF ~mixed_kinds_allowed(kinds_present, allow_safety_torque_stop)
    THEN BuildResult(FALSE, "Disallowed mixed kinds:", kinds_present, None)
    ELSE IF bad_cmd # 0
    THEN IF cmd_visits[bad_cmd][2] < 0 \/ cmd_visits[bad_cmd][2] >= dof_count
         THEN BuildResult(FALSE, "DOF index out of range in command:",
                          cmd_visits[bad_cmd][2], None)
         ELSE BuildResult(FALSE, "DOF overlap detected at index",
                          cmd_visits[bad_cmd][2], None)
    ELSE IF bad_hold # 0
    THEN IF hold_visits[bad_hold][2] < 0 \/ hold_visits[bad_hold][2] >= dof_count
         THEN BuildResult(FALSE, "DOF index out of range in space_dofs:",
                          hold_visits[bad_hold][2], None)
         ELSE BuildResult(FALSE, "Unknown preferred hold kind", "", None)
    ELSE IF \E space \in spaces_present :
               /\ final_by_space[space].kind = "JOINT_TORQUE"
               /\ final_by_space[space].dof_mask # << >>
               /\ allow_safety_torque_stop
               /\ final_by_space[space].source # "safety"
               /\ Cardinality(kinds_present) > 1
    THEN BuildResult(FALSE, "Torque mixed but not safety-sourced", "", None)
    ELSE BuildResult(TRUE, "OK", "",
             Some(ActuatorTargets(vector("JOINT_POSITION", now_q),
                                  vector("JOINT_VELOCITY", zeros),
                                  vector("JOINT_TORQUE", zeros))))

-----------------------------------------------------------------------------
(* types.py *)
(* Snapshot times are counted in units of 0.5 microseconds, so that the    *)
(* 1e-6 s tolerance of the gate is FutureTolerance = 2 units.  Strings     *)
(* that the code takes apart (env_fingerprint, env_scope_prefix) are       *)
(* sequences of symbols.                                                   *)

Phases == {"IDLE", "APPROACH", "ALIGN", "GRASP", "LIFT", "RETREAT",
           "RECOVERY", "TERMINATED"}

ActionKinds == {"ENABLE_SKILL", "DISABLE_SKILL", "SET_GOAL", "SET_PHASE",
                "APPLY_ENVELOPE", "EMERGENCY_STOP"}

Timestamped(value, t) == [value |-> value, t |-> t]

StateSnapshot(t_kernel, joints_q, joints_qd, ee_pose, contacts, perception_trust, phase, seq, env_fingerprint) ==
    [t_kernel |-> t_kernel, joints_q |-> joints_q, joints_qd |-> joints_qd,
     ee_pose |-> ee_pose, contacts |-> contacts,
     perception_trust |-> perception_trust, phase |-> phase, seq |-> seq,
     env_fingerprint |-> env_fingerprint]

Envelope(name, env_scope_prefix, max_snapshot_skew_s, max_state_staleness_s, q_min, q_max, qd_abs_max, ee_xyz_min, ee_xyz_max, allow_new_commits_when_degraded, allow_new_commits_when_untrusted, allowed_phase_edges, primary_authority, q_acc_abs_max, exclusion_zones) ==
    [name |-> name, env_scope_prefix |-> env_scope_prefix,
     max_snapshot_skew_s |-> max_snapshot_skew_s,
     max_state_staleness_s |-> max_state_staleness_s,
     q_min |-> q_min, q_max |-> q_max, qd_abs_max |-> qd_abs_max,
     ee_xyz_min |-> ee_xyz_min, ee_xyz_max |-> ee_xyz_max,
     allow_new_commits_when_degraded |-> allow_new_commits_when_degraded,
     allow_new_commits_when_untrusted |-> allow_new_commits_when_untrusted,
     allowed_phase_edges |-> allowed_phase_edges,
     primary_authority |-> primary_authority,
     q_acc_abs_max |-> q_acc_abs_max, exclusion_zones |-> exclusion_zones]

Action(kind, seq, skill_name, goal, next_phase, envelope_name, action_id) ==
    [kind |-> kind, seq |-> seq, skill_name |-> skill_name, goal |-> goal,
     next_phase |-> next_phase, envelope_name |-> envelope_name,
     action_id |-> action_id]

-----------------------------------------------------------------------------
(* ledger.py *)

\* Ledger(): last_seq = 0 and no seen action id
Ledger == [last_seq |-> 0, seen_action_ids |-> {}]

\* can_apply that holds EMERGENCY_STOP to the seq order
can_apply_estop_in_order(l, action) ==
    IF action.seq # l.last_seq + 1 THEN FALSE
    ELSE IF ~IsNone(action.action_id)
            /\ Get(action.action_id) \in l.seen_action_ids THEN FALSE
    ELSE TRUE

\* can_apply without the replay check
can_apply_no_replay(l, action) ==
    IF action.kind = "EMERGENCY_STOP" THEN TRUE
    ELSE IF action.seq # l.last_seq + 1 THEN FALSE
    ELSE TRUE

can_apply(l, action) ==
    IF action.kind = "EMERGENCY_STOP" THEN TRUE
    ELSE IF action.seq # l.last_seq + 1 THEN FALSE
    ELSE IF ~IsNone(action.action_id)
            /\ Get(action.action_id) \in l.seen_action_ids THEN FALSE
    ELSE TRUE

\* apply that takes the seq of every applied action, EMERGENCY_STOP included
apply_any_seq(l, action) ==
    IF ~can_apply(l, action)
    THEN [ledger |-> l, raised |-> TRUE]
    ELSE [ledger |->
            [last_seq |-> action.seq,
             seen_action_ids |->
                 IF ~IsNone(action.action_id)
                 THEN l.seen_action_ids \cup {Get(action.action_id)}
                 ELSE l.seen_action_ids],
          raised |-> FALSE]

\* returns [ledger |-> the ledger after the call, raised |-> ValueError raised]
apply(l, action) ==
    IF ~can_apply(l, action)
    THEN [ledger |-> l, raised |-> TRUE]
    ELSE [ledger |->
            [last_seq |-> IF action.kind # "EMERGENCY_STOP"
                          THEN action.seq ELSE l.last_seq,
             seen_action_ids |->
                 IF ~IsNone(action.action_id)
                 THEN l.seen_action_ids \cup {Get(action.action_id)}
                 ELSE l.seen_action_ids],
          raised |-> FALSE]

-----------------------------------------------------------------------------
(* gate.py *)

\* raised is TRUE when the call ends in an exception instead of a decision
GateDecision(ok, reason, reject_code) ==
    [ok |-> ok, reason |-> reason, reject_code |-> reject_code, raised |-> FALSE]

GateRaised(exc) ==
    [ok |-> FALSE, reason |-> exc, reject_code |-> exc, raised |-> TRUE]

\* 1e-6 s
FutureTolerance == 2

\* str.startswith
StartsWith(str, prefix) ==
    /\ Len(prefix) <= Len(str)
    /\ SubSeq(str, 1, Len(prefix)) = prefix

SetMin(S) == CHOOSE x \in S : \A y \in S : x <= y

SetMax(S) == CHOOSE x \in S : \A y \in S : x >= y

\* snapshot_time_ok without the staleness check
snapshot_time_ok_no_stale(state, env) ==
    LET ts == {state.joints_q.t, state.joints_qd.t, state.ee_pose.t,
               state.contacts.t, state.perception_trust.t}
        t_min == SetMin(ts)
        t_max == SetMax(ts)
    IN  IF (t_max - t_min) > env.max_snapshot_skew_s
        THEN <<FALSE, "SNAPSHOT_SKEW">>
        ELSE IF t_max > state.t_kernel + FutureTolerance
        THEN <<FALSE, "SNAPSHOT_FUTURE">>
        ELSE <<TRUE, "OK">>

\* returns <<ok, code>>; the message is determined by the code
snapshot_time_ok(state, env) ==
    LET ts == {state.joints_q.t, state.joints_qd.t, state.ee_pose.t,
               state.contacts.t, state.perception_trust.t}
        t_min == SetMin(ts)
        t_max == SetMax(ts)
    IN  IF (t_max - t_min) > env.max_snapshot_skew_s
        THEN <<FALSE, "SNAPSHOT_SKEW">>
        ELSE IF (state.t_kernel - t_min) > env.max_state_staleness_s
        THEN <<FALSE, "SNAPSHOT_STALE">>
        ELSE IF t_max > state.t_kernel + FutureTolerance
        THEN <<FALSE, "SNAPSHOT_FUTURE">>
        ELSE <<TRUE, "OK">>

\* inside the box [lo, hi] in x, y, z
InBox(ee, lo, hi) == \A k \in 1..3 : lo[k] <= ee[k] /\ ee[k] <= hi[k]

\* state_bounds_ok without the exclusion zones
state_bounds_ok_no_zones(state, env) ==
    LET q == state.joints_q.value
        qd == state.joints_qd.value
        n == Len(env.qd_abs_max)
        stops == { i \in 1..Len(qd) : i > n \/ Abs(qd[i]) > env.qd_abs_max[i] }
        firstStop == SetMin(stops)
        ee == state.ee_pose.value
    IN  IF Len(q) # Len(env.q_min) \/ Len(q) # Len(env.q_max) \/ Len(q) # n
        THEN <<FALSE, "DOF_MISMATCH">>
        ELSE IF \E i \in 1..Len(q) : q[i] < env.q_min[i] \/ q[i] > env.q_max[i]
        THEN <<FALSE, "JOINT_LIMIT">>
        ELSE IF stops # {}
        THEN IF firstStop > n THEN <<FALSE, "IndexError">>
             ELSE <<FALSE, "JOINT_VELOCITY">>
        ELSE IF IsNone(ee) THEN <<TRUE, "OK">>
        ELSE IF ~InBox(Get(ee), env.ee_xyz_min, env.ee_xyz_max)
        THEN <<FALSE, "EE_WORKSPACE">>
        ELSE <<TRUE, "OK">>

\* returns <<ok, code>>, or <<FALSE, "IndexError">> when the velocity loop
\* indexes past the end of env.qd_abs_max
state_bounds_ok(state, env) ==
    LET q == state.joints_q.value
        qd == state.joints_qd.value
        n == Len(env.qd_abs_max)
        \* first position of the velocity loop that stops it
        stops == { i \in 1..Len(qd) : i > n \/ Abs(qd[i]) > env.qd_abs_max[i] }
        firstStop == SetMin(stops)
        ee == state.ee_pose.value
        zones == IF IsNone(env.exclusion_zones) THEN << >>
                 ELSE Get(env.exclusion_zones)
    IN  IF Len(q) # Len(env.q_min) \/ Len(q) # Len(env.q_max) \/ Len(q) # n
        THEN <<FALSE, "DOF_MISMATCH">>
        ELSE IF \E i \in 1..Len(q) : q[i] < env.q_min[i] \/ q[i] > env.q_max[i]
        THEN <<FALSE, "JOINT_LIMIT">>
        ELSE IF stops # {}
        THEN IF firstStop > n THEN <<FALSE, "IndexError">>
             ELSE <<FALSE, "JOINT_VELOCITY">>
        ELSE IF IsNone(ee) THEN <<TRUE, "OK">>
        ELSE IF ~InBox(Get(ee), env.ee_xyz_min, env.ee_xyz_max)
        THEN <<FALSE, "EE_WORKSPACE">>
        ELSE IF \E z \in 1..Len(zones) : InBox(Get(ee), zones[z][1], zones[z][2])
        THEN <<FALSE, "EE_IN_ZONE">>
        ELSE <<TRUE, "OK">>

GoalTypes == {"reach", "move_base", "grasp", "lift"}

\* "not action.skill_name": None or the empty string
Falsy(o) == IsNone(o) \/ Get(o) = ""

\* action_ok that accepts every SET_PHASE with a next_phase
action_ok_any_edge(state, action, env, enabled_skills) ==
    IF action.kind = "ENABLE_SKILL"
    THEN IF Falsy(action.skill_name) THEN <<FALSE, "BAD_ACTION">>
         ELSE IF Get(action.skill_name) \notin DOMAIN enabled_skills
         THEN <<FALSE, "UNKNOWN_SKILL">>
         ELSE IF state.phase \notin {"IDLE", "RECOVERY"}
         THEN <<FALSE, "PHASE_RULE">>
         ELSE <<TRUE, "OK">>
    ELSE IF action.kind = "DISABLE_SKILL"
    THEN IF Falsy(action.skill_name) THEN <<FALSE, "BAD_ACTION">>
         ELSE IF Get(action.skill_name) \notin DOMAIN enabled_skills
         THEN <<FALSE, "UNKNOWN_SKILL">>
         ELSE <<TRUE, "OK">>
    ELSE IF action.kind = "SET_GOAL"
    THEN IF IsNone(action.goal) THEN <<FALSE, "BAD_ACTION">>
         ELSE IF IsNone(MapGet(Get(action.goal), "type"))
                 \/ Get(action.goal).type \notin GoalTypes
         THEN <<FALSE, "BAD_GOAL">>
         ELSE <<TRUE, "OK">>
    ELSE IF action.kind = "SET_PHASE"
    THEN IF IsNone(action.next_phase) THEN <<FALSE, "BAD_ACTION">>
         ELSE <<TRUE, "OK">>
    ELSE IF action.kind = "APPLY_ENVELOPE"
    THEN IF Falsy(action.envelope_name) THEN <<FALSE, "BAD_ACTION">>
         ELSE IF state.phase \notin {"IDLE", "RECOVERY"}
         THEN <<FALSE, "PHASE_RULE">>
         ELSE <<TRUE, "OK">>
    ELSE <<FALSE, "BAD_ACTION_KIND">>

\* returns <<ok, code>>
action_ok(state, action, env, enabled_skills) ==
    IF action.kind = "ENABLE_SKILL"
    THEN IF Falsy(action.skill_name) THEN <<FALSE, "BAD_ACTION">>
         ELSE IF Get(action.skill_name) \notin DOMAIN enabled_skills
         THEN <<FALSE, "UNKNOWN_SKILL">>
         ELSE IF state.phase \notin {"IDLE", "RECOVERY"}
         THEN <<FALSE, "PHASE_RULE">>
         ELSE <<TRUE, "OK">>
    ELSE IF action.kind = "DISABLE_SKILL"
    THEN IF Falsy(action.skill_name) THEN <<FALSE, "BAD_ACTION">>
         ELSE IF Get(action.skill_name) \notin DOMAIN enabled_skills
         THEN <<FALSE, "UNKNOWN_SKILL">>
         ELSE <<TRUE, "OK">>
    ELSE IF action.kind = "SET_GOAL"
    THEN IF IsNone(action.goal) THEN <<FALSE, "BAD_ACTION">>
         ELSE IF IsNone(MapGet(Get(action.goal), "type"))
                 \/ Get(action.goal).type \notin GoalTypes
         THEN <<FALSE, "BAD_GOAL">>
         ELSE <<TRUE, "OK">>
    ELSE IF action.kind = "SET_PHASE"
    THEN IF IsNone(action.next_phase) THEN <<FALSE, "BAD_ACTION">>
         ELSE IF <<state.phase, Get(action.next_phase)>> \notin env.allowed_phase_edges
         THEN <<FALSE, "PHASE_EDGE">>
         ELSE <<TRUE, "OK">>
    ELSE IF action.kind = "APPLY_ENVELOPE"
    THEN IF Falsy(action.envelope_name) THEN <<FALSE, "BAD_ACTION">>
         ELSE IF state.phase \notin {"IDLE", "RECOVERY"}
         THEN <<FALSE, "PHASE_RULE">>
         ELSE <<TRUE, "OK">>
    ELSE <<FALSE, "BAD_ACTION_KIND">>

\* gate without the check of DEGRADED perception
gate_trusting_degraded(state, action, envelope, l, enabled_skills) ==
    LET time == snapshot_time_ok(state, envelope)
        trust == state.perception_trust.value
        bounds == state_bounds_ok(state, envelope)
        act == action_ok(state, action, envelope, enabled_skills)
    IN
    IF action.kind = "EMERGENCY_STOP"
    THEN GateDecision(TRUE, "E-STOP allowed", "OK")
    ELSE IF ~can_apply(l, action)
    THEN GateDecision(FALSE, "Ledger ordering / replay violation", "ORDER_VIOLATION")
    ELSE IF ~StartsWith(state.env_fingerprint, envelope.env_scope_prefix)
    THEN GateDecision(FALSE, "Envelope not valid for environment fingerprint",
                      "ENV_SCOPE_MISMATCH")
    ELSE IF ~time[1]
    THEN GateDecision(FALSE, time[2], time[2])
    ELSE IF trust = "UNTRUSTED" /\ ~envelope.allow_new_commits_when_untrusted
    THEN GateDecision(FALSE, "Perception UNTRUSTED: no new commits allowed",
                      "PERCEPTION_UNTRUSTED")
    ELSE IF ~bounds[1]
    THEN IF bounds[2] = "IndexError" THEN GateRaised("IndexError")
         ELSE GateDecision(FALSE, bounds[2], bounds[2])
    ELSE IF ~act[1]
    THEN GateDecision(FALSE, act[2], act[2])
    ELSE GateDecision(TRUE, "Accepted", "OK")

gate(state, action, envelope, l, enabled_skills) ==
    LET time == snapshot_time_ok(state, envelope)
        trust == state.perception_trust.value
        bounds == state_bounds_ok(state, envelope)
        act == action_ok(state, action, envelope, enabled_skills)
    IN
    IF action.kind = "EMERGENCY_STOP"
    THEN GateDecision(TRUE, "E-STOP allowed", "OK")
    ELSE IF ~can_apply(l, action)
    THEN GateDecision(FALSE, "Ledger ordering / replay violation", "ORDER_VIOLATION")
    ELSE IF ~StartsWith(state.env_fingerprint, envelope.env_scope_prefix)
    THEN GateDecision(FALSE, "Envelope not valid for environment fingerprint",
                      "ENV_SCOPE_MISMATCH")
    ELSE IF ~time[1]
    THEN GateDecision(FALSE, time[2], time[2])
    ELSE IF trust = "DEGRADED" /\ ~envelope.allow_new_commits_when_degraded
    THEN GateDecision(FALSE, "Perception DEGRADED: no new commits allowed",
                      "PERCEPTION_DEGRADED")
    ELSE IF trust = "UNTRUSTED" /\ ~envelope.allow_new_commits_when_untrusted
    THEN GateDecision(FALSE, "Perception UNTRUSTED: no new commits allowed",
                      "PERCEPTION_UNTRUSTED")
    ELSE IF ~bounds[1]
    THEN IF bounds[2] = "IndexError" THEN GateRaised("IndexError")
         ELSE GateDecision(FALSE, bounds[2], bounds[2])
    ELSE IF ~act[1]
    THEN GateDecision(FALSE, act[2], act[2])
    ELSE GateDecision(TRUE, "Accepted", "OK")

-----------------------------------------------------------------------------
(* Inputs of the controller: a two-DOF robot, arm on DOF 0, base on DOF 1 *)

\* largest time at which an entry point of the controller is called
MaxTime == 2

\* largest number of skill proposals in one tick
MaxProposals == 2

\* a tick time more than DtCap after every other one
FarTime == DtCap + DtCap

Times == 0..MaxTime

Authority == [arm |-> "reach", base |-> "nav"]

LeaseWide ==
    CapabilityLease(1, "L1", 0, 1, <<-20, -10>>, <<20, 10>>, <<20, 10>>,
                    None, Some(Authority))

LeaseTight ==
    CapabilityLease(2, "L2", 1, FarTime, <<-5, -5>>, <<5, 5>>, <<5, 5>>,
                    Some(<<5, 5>>), Some(Authority))

LeaseLate ==
    CapabilityLease(1, "L3", 2, FarTime, <<-20, -10>>, <<20, 10>>, <<20, 10>>,
                    None, Some([arm |-> "reach"]))

LeasePool == {LeaseWide, LeaseTight, LeaseLate}

\* the envelope of envelopes.py cut down to two DOFs, with and without
\* acceleration limits
BaseEnvelope ==
    Envelope("base_arm_v1", <<"lab_v1">>, 20000, 40000,
             <<-20, -10>>, <<20, 10>>, <<20, 10>>,
             <<-6, -6, 0>>, <<6, 6, 12>>, FALSE, FALSE,
             {<<"IDLE", "APPROACH">>, <<"APPROACH", "ALIGN">>,
              <<"ALIGN", "GRASP">>, <<"GRASP", "LIFT">>, <<"LIFT", "RETREAT">>,
              <<"RETREAT", "IDLE">>, <<"APPROACH", "RECOVERY">>,
              <<"ALIGN", "RECOVERY">>, <<"GRASP", "RECOVERY">>,
              <<"LIFT", "RECOVERY">>, <<"RETREAT", "RECOVERY">>,
              <<"RECOVERY", "IDLE">>, <<"IDLE", "TERMINATED">>,
              <<"RECOVERY", "TERMINATED">>},
             [arm |-> "reach", base |-> "safety"], None, None)

AccEnvelope == [BaseEnvelope EXCEPT !.q_acc_abs_max = Some(<<5, 10>>)]

\* the envelope argument of install_lease
CtrlEnvelopes == {None, Some(BaseEnvelope), Some(AccEnvelope)}

\* proposals of the skills, in a fixed order
SkillCommands ==
    << MaskedCommand("arm", "JOINT_VELOCITY", <<0>>, <<20>>, "reach"),
       MaskedCommand("arm", "JOINT_VELOCITY", <<0>>, <<-20>>, "reach"),
       MaskedCommand("base", "JOINT_VELOCITY", <<1>>, <<20>>, "nav"),
       MaskedCommand("arm", "JOINT_TORQUE", <<0>>, <<20>>, "reach") >>

\* the lists of at most MaxProposals distinct skill commands, in the order
\* of SkillCommands
RECURSIVE PickInOrder(_, _)
PickInOrder(S, i) ==
    IF i > Len(SkillCommands) THEN << >>
    ELSE IF i \in S THEN <<SkillCommands[i]>> \o PickInOrder(S, i + 1)
    ELSE PickInOrder(S, i + 1)

SkillLists ==
    { PickInOrder(S, 1) :
        S \in { T \in SUBSET (1..Len(SkillCommands)) :
                  Cardinality(T) <= MaxProposals } }

\* DOF partition handed to the safety injector
SpaceDofs == [arm |-> <<0>>, base |-> <<1>>]

\* monitor outcomes with the injector configuration used for them
Injections ==
    { <<SafetyEvent("NONE", "ok", None), DefaultInjectorConfig>>,
      <<SafetyEvent("STOP", "collision_margin", Some([arm |-> "too_close"])),
        DefaultInjectorConfig>> }

-----------------------------------------------------------------------------
(* The controller as a state machine: the entry points of controller.py   *)
(* called in any order.  call records the last call: its name, its time,  *)
(* the commands injected by the safety injector and what it returned.     *)

Init ==
    /\ ctrl = ControllerState
    /\ ledger = Ledger
    /\ call = [op |-> "init"]

ApplyEstop ==
    /\ ctrl' = apply_estop(ctrl)
    /\ call' = [op |-> "apply_estop"]
    /\ UNCHANGED ledger

ClearEstop ==
    /\ ctrl' = clear_estop(ctrl)
    /\ call' = [op |-> "clear_estop"]
    /\ UNCHANGED ledger

InstallLease ==
    \E lease \in LeasePool, now_t \in Times, envelope \in CtrlEnvelopes :
        LET r == install_lease(ctrl, lease, now_t, envelope)
        IN  /\ ctrl' = r.ctrl
            /\ call' = [op |-> "install_lease", ret |-> r.out]
            /\ UNCHANGED ledger

\* one tick of the pipeline: proposals = injected + skills (sim_harness.py)
Tick ==
    \E now_t \in Times, inj \in Injections, skills \in SkillLists :
        LET injected == safety_injector(inj[1], SpaceDofs, inj[2], None)
            r == step_controller_multi(ctrl, now_t, injected \o skills)
        IN  /\ ctrl' = r.ctrl
            /\ call' = [op |-> "tick", now_t |-> now_t,
                        injected |-> injected, ret |-> r.out]
            /\ UNCHANGED ledger

Next == ApplyEstop \/ ClearEstop \/ InstallLease \/ Tick

Spec == Init /\ [][Next]_vars

-----------------------------------------------------------------------------
(* The absolute clamp on its own: clamp_masked_command_to_lease applied   *)
(* to one command and one lease.                                           *)

\* largest number of DOF indices in the mask of a clamped command
MaxMask == 2

\* DOF indices 0..2 (2 is out of range for the two-DOF leases)
ClampMasks ==
    { m \in SeqsUpTo(0..2, MaxMask) : Cardinality(Range(m)) = Len(m) }

ClampInputValues == {-30, -8, 0, 8, 30}

ClampCommands ==
    { MaskedCommand("arm", kind, m, v, src) :
        kind \in Kinds, src \in {"reach", "safety"},
        m \in ClampMasks, v \in SeqsUpTo(ClampInputValues, MaxMask) }

\* leases with three DOFs, with a short q_max, with a long qd_abs_max and
\* with a short tau_abs_max, next to the leases of the controller
ClampLeases ==
    { LeaseWide, LeaseTight,
      [LeaseWide EXCEPT !.q_min = <<-20, -10, -3>>, !.q_max = <<20, 10, 3>>,
                        !.qd_abs_max = <<20, 10, 3>>,
                        !.tau_abs_max = Some(<<4, 5, 6>>)],
      [LeaseWide EXCEPT !.q_max = <<20>>],
      [LeaseTight EXCEPT !.qd_abs_max = <<5, 5, 5>>],
      [LeaseTight EXCEPT !.tau_abs_max = Some(<<5>>)] }

InitClamp ==
    /\ ctrl = ControllerState
    /\ ledger = Ledger
    /\ \E cmd \in { c \in ClampCommands : ValidCommand(c) }, lease \in ClampLeases :
          call = [op |-> "clamp_args", cmd |-> cmd, lease |-> lease]

ClampCall ==
    /\ call.op = "clamp_args"
    /\ call' = [op |-> "clamp", cmd |-> call.cmd, lease |-> call.lease,
                ret |-> clamp_masked_command_to_lease(call.cmd, call.lease)]
    /\ UNCHANGED <<ctrl, ledger>>

NextClamp == ClampCall

SpecClamp == InitClamp /\ [][NextClamp]_vars

-----------------------------------------------------------------------------
(* The arbiter on its own: arbitrate_multi applied to one lease and one   *)
(* list of proposals.                                                      *)

\* longest list of proposals handed to the arbiter
MaxArbProposals == 3

ArbCommands ==
    { MaskedCommand("arm", "JOINT_VELOCITY", <<0>>, <<0>>, "safety"),
      MaskedCommand("arm", "JOINT_TORQUE", <<0>>, <<-8>>, "safety"),
      MaskedCommand("arm", "JOINT_VELOCITY", <<0>>, <<20>>, "reach"),
      MaskedCommand("arm", "JOINT_VELOCITY", <<0>>, <<20>>, "rogue"),
      MaskedCommand("base", "JOINT_VELOCITY", <<1>>, <<0>>, "safety"),
      MaskedCommand("base", "JOINT_VELOCITY", <<1>>, <<20>>, "nav"),
      MaskedCommand("legs", "JOINT_VELOCITY", <<1>>, <<20>>, "balance") }

\* leases with authority over arm and base, over arm only, and without a map
ArbLeases ==
    { LeaseWide, LeaseLate, [LeaseWide EXCEPT !.primary_authority = None] }

InitArb ==
    /\ ctrl = ControllerState
    /\ ledger = Ledger
    /\ \E lease \in ArbLeases, proposals \in SeqsUpTo(ArbCommands, MaxArbProposals) :
          call = [op |-> "arbitrate_args", lease |-> lease,
                  proposals |-> proposals]

ArbCall ==
    /\ call.op = "arbitrate_args"
    /\ call' = [op |-> "arbitrate", lease |-> call.lease,
                proposals |-> call.proposals,
                ret |-> arbitrate_multi(call.lease, call.proposals)]
    /\ UNCHANGED <<ctrl, ledger>>

NextArb == ArbCall

SpecArb == InitArb /\ [][NextArb]_vars

-----------------------------------------------------------------------------
(* One tick on its own: step_controller_multi applied once, to a state    *)
(* that the entry points of the controller produce, with a time and a     *)
(* list of proposals; call keeps the whole input and the spaces that had   *)
(* a history entry before the tick (had).                                  *)

\* longest list of proposals handed to a single tick
MaxTickProposals == 2

TickTimes == Times \cup {FarTime}

TickCommands ==
    { MaskedCommand("arm", "JOINT_VELOCITY", <<0>>, <<20>>, "reach"),
      MaskedCommand("arm", "JOINT_VELOCITY", <<0>>, <<-20>>, "rogue"),
      MaskedCommand("arm", "JOINT_TORQUE", <<0>>, <<20>>, "reach"),
      MaskedCommand("arm", "JOINT_VELOCITY", <<2>>, <<20>>, "reach"),
      MaskedCommand("arm", "JOINT_VELOCITY", <<0>>, <<0>>, "safety"),
      MaskedCommand("base", "JOINT_VELOCITY", <<1>>, <<20>>, "nav"),
      MaskedCommand("base", "JOINT_VELOCITY", <<1, 0>>, <<-20, 20>>, "nav"),
      MaskedCommand("base", "JOINT_TORQUE", <<1>>, <<20>>, "nav"),
      MaskedCommand("base", "JOINT_TORQUE", <<1>>, <<-5>>, "safety"),
      MaskedCommand("legs", "JOINT_VELOCITY", <<1, 0>>, <<0, 0>>, "safety") }

\* states after one install_lease
FreshStates ==
    { install_lease(ControllerState, l, l.issued_t, e).ctrl :
        l \in LeasePool, e \in CtrlEnvelopes }

\* states after one install_lease and one tick
MovedStates ==
    { step_controller_multi(c, Get(c.active_lease).issued_t, <<cmd>>).ctrl :
        c \in FreshStates,
        cmd \in { MaskedCommand("arm", "JOINT_VELOCITY", <<0>>, <<20>>, "reach"),
                  MaskedCommand("base", "JOINT_VELOCITY", <<1, 0>>, <<-20, 20>>, "nav") } }

TickStates ==
    {ControllerState} \cup FreshStates \cup MovedStates
        \cup { apply_estop(c) : c \in FreshStates }

InitTick ==
    /\ ctrl \in TickStates
    /\ ledger = Ledger
    /\ \E now_t \in TickTimes, proposals \in SeqsUpTo(TickCommands, MaxTickProposals) :
          call = [op |-> "step_args", now_t |-> now_t, proposals |-> proposals]

\* a tick that keeps the history of the spaces it did not select
StepCallMerging ==
    /\ call.op = "step_args"
    /\ LET r == step_controller_multi(ctrl, call.now_t, call.proposals)
           old == ctrl.last_commands
           new == r.ctrl.last_commands
       IN  /\ ctrl' = [r.ctrl EXCEPT !.last_commands =
                          [s \in DOMAIN old \cup DOMAIN new |->
                              IF s \in DOMAIN new THEN new[s] ELSE old[s]]]
           /\ call' = [op |-> "step", now_t |-> call.now_t,
                       proposals |-> call.proposals,
                       had |-> DOMAIN ctrl.last_commands, ret |-> r.out]
    /\ UNCHANGED ledger

\* a tick that stamps last_tick_t whatever its outcome
StepCallStamping ==
    /\ call.op = "step_args"
    /\ LET r == step_controller_multi(ctrl, call.now_t, call.proposals)
       IN  /\ ctrl' = [r.ctrl EXCEPT !.last_tick_t = call.now_t]
           /\ call' = [op |-> "step", now_t |-> call.now_t,
                       proposals |-> call.proposals,
                       had |-> DOMAIN ctrl.last_commands, ret |-> r.out]
    /\ UNCHANGED ledger

StepCall ==
    /\ call.op = "step_args"
    /\ LET r == step_controller_multi(ctrl, call.now_t, call.proposals)
       IN  /\ ctrl' = r.ctrl
           /\ call' = [op |-> "step", now_t |-> call.now_t,
                       proposals |-> call.proposals,
                       had |-> DOMAIN ctrl.last_commands, ret |-> r.out]
    /\ UNCHANGED ledger

NextTick == StepCall

SpecTick == InitTick /\ [][NextTick]_vars

-----------------------------------------------------------------------------
(* One install_lease on its own: applied once to a state that the entry    *)
(* points of the controller produce, with a lease, a time and an           *)
(* envelope; call keeps the whole input.                                   *)

InitInstall ==
    /\ ctrl \in TickStates
    /\ ledger = Ledger
    /\ \E lease \in LeasePool, now_t \in TickTimes, envelope \in CtrlEnvelopes :
          call = [op |-> "install_args", lease |-> lease, now_t |-> now_t,
                  envelope |-> envelope]

InstallCall ==
    /\ call.op = "install_args"
    /\ LET r == install_lease(ctrl, call.lease, call.now_t, call.envelope)
       IN  /\ ctrl' = r.ctrl
           /\ call' = [op |-> "install", lease |-> call.lease,
                       now_t |-> call.now_t, envelope |-> call.envelope,
                       ret |-> r.out]
    /\ UNCHANGED ledger

NextInstall == InstallCall

SpecInstall == InitInstall /\ [][NextInstall]_vars

-----------------------------------------------------------------------------
(* The ledger and the gate as a state machine: can_apply, apply and gate  *)
(* called in any order on one ledger.  call records the last call: its    *)
(* name, its action and what it returned.                                  *)

\* largest seq carried by an action
MaxSeq == 3

\* a fresh, in-bounds snapshot in phase IDLE for the two-DOF envelope
GoodSnapshot ==
    StateSnapshot(100000, Timestamped(<<0, 0>>, 100000),
                  Timestamped(<<0, 0>>, 100000),
                  Timestamped(Some(<<0, 0, 5, 1, 0, 0, 0>>), 100000),
                  Timestamped([left_foot |-> TRUE], 100000),
                  Timestamped("VALID", 100000), "IDLE", 0,
                  <<"lab_v1", "|", "cam_v3">>)

\* the good snapshot, one with an old end-effector pose, and one with a
\* velocity vector longer than the envelope's
GateSnapshots ==
    { GoodSnapshot,
      [GoodSnapshot EXCEPT !.ee_pose.t = 40000],
      [GoodSnapshot EXCEPT !.joints_qd.value = <<0, 0, 0>>] }

GateEnvelopes ==
    { BaseEnvelope, [BaseEnvelope EXCEPT !.env_scope_prefix = <<"lab_v2">>] }

EnabledSkills == [reach |-> FALSE, safety |-> TRUE]

ActionIds == {None, Some("a"), Some("b")}

LedgerActions ==
    { Action(kind, seq, Some("reach"), None, Some("APPROACH"), None, id) :
        kind \in {"ENABLE_SKILL", "SET_PHASE", "EMERGENCY_STOP"},
        seq \in 0..MaxSeq, id \in ActionIds }

InitLedger ==
    /\ ctrl = ControllerState
    /\ ledger = Ledger
    /\ call = [op |-> "init"]

\* a gate call that applies the action it accepts to the ledger
GateCallApplying ==
    \E state \in GateSnapshots, action \in LedgerActions, envelope \in GateEnvelopes :
        LET d == gate(state, action, envelope, ledger, EnabledSkills)
        IN  /\ call' = [op |-> "gate", action |-> action, ret |-> d]
            /\ ledger' = IF d.ok THEN apply(ledger, action).ledger ELSE ledger
            /\ UNCHANGED ctrl

GateCall ==
    \E state \in GateSnapshots, action \in LedgerActions, envelope \in GateEnvelopes :
        /\ call' = [op |-> "gate", action |-> action,
                    ret |-> gate(state, action, envelope, ledger, EnabledSkills)]
        /\ UNCHANGED <<ctrl, ledger>>

CanApplyCall ==
    \E action \in LedgerActions :
        /\ call' = [op |-> "can_apply", action |-> action,
                    ret |-> can_apply(ledger, action)]
        /\ UNCHANGED <<ctrl, ledger>>

ApplyCall ==
    \E action \in LedgerActions :
        LET r == apply(ledger, action)
        IN  /\ ledger' = r.ledger
            /\ call' = [op |-> "apply", action |-> action, raised |-> r.raised]
            /\ UNCHANGED ctrl

NextLedger == GateCall \/ CanApplyCall \/ ApplyCall

SpecLedger == InitLedger /\ [][NextLedger]_vars

-----------------------------------------------------------------------------
(* One gate decision on its own: gate applied once to a snapshot, an       *)
(* action, an envelope and a ledger, the ledger applied afterwards when    *)
(* the decision is ok.  call keeps the whole input.                        *)

\* largest number of fields in which a snapshot differs from the good one
MaxFaults == 2

\* t_kernel of every snapshot, 0.05 s
KernelTime == 100000

FreshTimes ==
    [q |-> KernelTime, qd |-> KernelTime, ee |-> KernelTime,
     contacts |-> KernelTime, trust |-> KernelTime]

\* timestamps of the five fields: fresh; at the skew budget; over the skew
\* budget; over the skew and the staleness budget; all over the staleness
\* budget; one field 1.5 us in the future; one field 1 us in the future
TimeProfiles ==
    { FreshTimes,
      [FreshTimes EXCEPT !.ee = KernelTime - BaseEnvelope.max_snapshot_skew_s],
      [FreshTimes EXCEPT !.ee = KernelTime - BaseEnvelope.max_snapshot_skew_s - 1],
      [FreshTimes EXCEPT !.ee = KernelTime - BaseEnvelope.max_state_staleness_s - 1],
      [f \in DOMAIN FreshTimes |-> KernelTime - BaseEnvelope.max_state_staleness_s - 1],
      [FreshTimes EXCEPT !.trust = KernelTime + FutureTolerance + 1],
      [FreshTimes EXCEPT !.trust = KernelTime + FutureTolerance] }

PerceptionTrusts == {"VALID", "DEGRADED", "UNTRUSTED"}

\* what a snapshot is made of
GoodShape ==
    [time |-> FreshTimes, trust |-> "VALID", q |-> <<0, 0>>, qd |-> <<0, 0>>,
     ee |-> Some(<<0, 0, 5, 1, 0, 0, 0>>), phase |-> "IDLE",
     fingerprint |-> <<"lab_v1", "|", "cam_v3">>]

\* joint vectors in range, out of range, too short and too long; end
\* effector inside the workspace, absent, outside the workspace and inside
\* the exclusion zone
SnapshotShapes ==
    { sh \in [time : TimeProfiles,
              trust : PerceptionTrusts,
              q : {<<0, 0>>, <<30, 0>>, <<0>>},
              qd : {<<0, 0>>, <<0, 11>>, <<0>>, <<0, 0, 0>>, <<0, 11, 0>>},
              ee : {Some(<<0, 0, 5, 1, 0, 0, 0>>), None,
                    Some(<<7, 0, 5, 1, 0, 0, 0>>), Some(<<1, 1, 1, 1, 0, 0, 0>>)},
              phase : {"IDLE", "APPROACH"},
              fingerprint : {<<"lab_v1", "|", "cam_v3">>, <<"lab_v2", "|", "cam_v3">>}] :
        Cardinality({ f \in DOMAIN GoodShape : sh[f] # GoodShape[f] }) <= MaxFaults }

SnapshotOf(sh) ==
    StateSnapshot(KernelTime, Timestamped(sh.q, sh.time.q),
                  Timestamped(sh.qd, sh.time.qd),
                  Timestamped(sh.ee, sh.time.ee),
                  Timestamped([left_foot |-> TRUE], sh.time.contacts),
                  Timestamped(sh.trust, sh.time.trust), sh.phase, 0,
                  sh.fingerprint)

DecideSnapshots == { SnapshotOf(sh) : sh \in SnapshotShapes }

\* the base envelope with one exclusion zone
ZoneEnvelope ==
    [BaseEnvelope EXCEPT !.exclusion_zones = Some(<< <<<<1, 1, 1>>, <<2, 2, 2>>>> >>)]

DecideEnvelopes ==
    { ZoneEnvelope,
      [ZoneEnvelope EXCEPT !.allow_new_commits_when_degraded = TRUE],
      [BaseEnvelope EXCEPT !.allow_new_commits_when_untrusted = TRUE] }

\* a ledger that has applied one action, with action_id "a"
UsedLedger == [last_seq |-> 1, seen_action_ids |-> {"a"}]

DecideLedgers == {Ledger, UsedLedger}

\* payloads: one action that passes the rules of its kind in phase IDLE for
\* each kind, and actions that break them
DecidePayloads ==
    { Action("ENABLE_SKILL", 0, Some("reach"), None, None, None, None),
      Action("ENABLE_SKILL", 0, Some("fly"), None, None, None, None),
      Action("ENABLE_SKILL", 0, None, None, None, None, None),
      Action("DISABLE_SKILL", 0, Some("reach"), None, None, None, None),
      Action("SET_GOAL", 0, None, Some([type |-> "reach"]), None, None, None),
      Action("SET_GOAL", 0, None, Some([type |-> "fly"]), None, None, None),
      Action("SET_PHASE", 0, None, None, Some("APPROACH"), None, None),
      Action("SET_PHASE", 0, None, None, Some("GRASP"), None, None),
      Action("APPLY_ENVELOPE", 0, None, None, None, Some("tight"), None),
      Action("EMERGENCY_STOP", 0, None, None, None, None, None),
      Action("RESET", 0, None, None, None, None, None) }

DecideActions ==
    { [p EXCEPT !.seq = seq, !.action_id = id] :
        p \in DecidePayloads, seq \in {1, 2}, id \in {None, Some("a")} }

InitDecide ==
    /\ ctrl = ControllerState
    /\ ledger \in DecideLedgers
    /\ \E state \in DecideSnapshots, action \in DecideActions,
          envelope \in DecideEnvelopes :
          call = [op |-> "gate_args", state |-> state, action |-> action,
                  envelope |-> envelope]

DecideCall ==
    /\ call.op = "gate_args"
    /\ call' = [op |-> "gate", state |-> call.state, action |-> call.action,
                envelope |-> call.envelope,
                ret |-> gate(call.state, call.action, call.envelope, ledger,
                             EnabledSkills)]
    /\ UNCHANGED <<ctrl, ledger>>

\* the caller applies the action to the ledger when the decision is ok
CommitCall ==
    /\ call.op = "gate"
    /\ ~call.ret.raised
    /\ call.ret.ok
    /\ LET r == apply(ledger, call.action)
       IN  /\ ledger' = r.ledger
           /\ call' = [op |-> "commit", state |-> call.state,
                       action |-> call.action, envelope |-> call.envelope,
                       ret |-> call.ret, raised |-> r.raised]
    /\ UNCHANGED ctrl

NextDecide == DecideCall \/ CommitCall

SpecDecide == InitDecide /\ [][NextDecide]_vars

-----------------------------------------------------------------------------
(* The control plane as a chain of gate decisions: the caller submits an   *)
(* action on a fresh snapshot that carries the current phase, applies it   *)
(* to the ledger when the decision is ok, and an accepted SET_PHASE moves  *)
(* the phase to next_phase.  call keeps the phase reached, the action      *)
(* submitted last, the phase it was evaluated on and the decision.         *)

\* what the caller submits on a ledger at last_seq: the three kinds with a
\* phase rule, with the seq in order or repeated
ChainActions(last_seq) ==
    { Action(kind, seq, Some("reach"), None, next, Some("tight"), None) :
        kind \in {"ENABLE_SKILL", "APPLY_ENVELOPE", "SET_PHASE"},
        seq \in {last_seq, last_seq + 1}, next \in { Some(ph) : ph \in Phases } }

InitChain ==
    /\ ctrl = ControllerState
    /\ ledger = Ledger
    /\ \E phase \in Phases : call = [op |-> "start", phase |-> phase]

Submit ==
    /\ ledger.last_seq < MaxSeq
    /\ \E action \in ChainActions(ledger.last_seq) :
          LET state == [GoodSnapshot EXCEPT !.phase = call.phase,
                                            !.seq = ledger.last_seq]
              d == gate(state, action, BaseEnvelope, ledger, EnabledSkills)
          IN  /\ call' = [op |-> "submit",
                          phase |-> IF d.ok /\ action.kind = "SET_PHASE"
                                    THEN Get(action.next_phase) ELSE call.phase,
                          from |-> call.phase, action |-> action, ret |-> d]
              /\ ledger' = IF d.ok THEN apply(ledger, action).ledger ELSE ledger
    /\ UNCHANGED ctrl

NextChain == Submit

SpecChain == InitChain /\ [][NextChain]_vars

-----------------------------------------------------------------------------
(* A monitor registry on its own: monitors register and replace their      *)
(* events in any order and the registry is aggregated at any time.  call   *)
(* keeps the registry (active_events) and what the last call returned.     *)

\* the events a monitor can report
AggEvents ==
    { SafetyEvent(level, <<reason>>, affected) :
        level \in SafetyLevels, reason \in {"fault", "margin"},
        affected \in {None, Some([arm |-> <<"too_close">>])} }

InitAgg ==
    /\ ctrl = ControllerState
    /\ ledger = Ledger
    /\ call = [op |-> "init", active_events |-> << >>]

UpdateCall ==
    /\ \E source_id \in Range(SourceOrder), event \in AggEvents :
          call' = [op |-> "update",
                   active_events |-> update(call.active_events, source_id, event)]
    /\ UNCHANGED <<ctrl, ledger>>

AggregateCall ==
    /\ call' = [op |-> "aggregate", active_events |-> call.active_events,
                ret |-> aggregate(call.active_events)]
    /\ UNCHANGED <<ctrl, ledger>>

NextAgg == UpdateCall \/ AggregateCall

SpecAgg == InitAgg /\ [][NextAgg]_vars

-----------------------------------------------------------------------------
(* The safety injector on its own: safety_injector applied once to an      *)
(* event, a DOF partition, a configuration and a velocity feedback.        *)

\* longest velocity feedback vector
MaxVel == 3

\* the DOF partitions: two and three spaces, one of them with no DOF
InjectSpaceDofs ==
    { [arm |-> <<0, 1>>, base |-> <<2>>],
      [arm |-> <<1, 0>>, base |-> <<2>>, legs |-> <<3, 4>>],
      [arm |-> <<0, 1>>, base |-> << >>],
      [whole_body |-> <<0, 1, 2>>] }

InjectEvents ==
    { SafetyEvent(level, "collision", affected) :
        level \in SafetyLevels,
        affected \in { None, Some(EmptyMap), Some([arm |-> "too_close"]),
                       Some([base |-> "cliff_detected"]),
                       Some([legs |-> "slip", arm |-> "too_close"]),
                       Some([gripper |-> "jam"]) } }

InjectConfigs ==
    { SafetyInjectorConfig(stop_kind, damping_gain, global_stop) :
        stop_kind \in {"JOINT_VELOCITY", "JOINT_POSITION"},
        damping_gain \in {0, 5}, global_stop \in BOOLEAN }

\* velocity feedback: absent, or the first n joint velocities 1, -2, 3, ...
InjectVelocities ==
    {None} \cup { Some([k \in 1..n |-> IF k % 2 = 1 THEN k ELSE -k]) :
                    n \in 0..MaxVel }

InitInject ==
    /\ ctrl = ControllerState
    /\ ledger = Ledger
    /\ \E event \in InjectEvents, space_dofs \in InjectSpaceDofs,
          cfg \in InjectConfigs, current_velocities \in InjectVelocities :
          call = [op |-> "inject_args", event |-> event,
                  space_dofs |-> space_dofs, cfg |-> cfg,
                  current_velocities |-> current_velocities]

InjectCall ==
    /\ call.op = "inject_args"
    /\ call' = [call EXCEPT !.op = "inject"] @@
               [ret |-> safety_injector(call.event, call.space_dofs, call.cfg,
                                        call.current_velocities)]
    /\ UNCHANGED <<ctrl, ledger>>

NextInject == InjectCall

SpecInject == InitInject /\ [][NextInject]_vars

-----------------------------------------------------------------------------
(* The actuator builder on its own: build_actuator_targets_v2 applied once *)
(* to a set of final commands, the joint positions, a DOF partition, a     *)
(* hold policy and the safety-torque flag.                                 *)

\* number of joints of the robot
MaxDof == 3

\* the joint positions now_q of the robot: 5, 6, 7, ...
NowQ == [i \in 1..MaxDof |-> 4 + i]

\* the final command of each space: conforming commands, torque from safety
\* and from a skill, a position command outside the arm, masks that overlap,
\* leave the joint range or are empty
BuildCommands ==
    [arm |-> { MaskedCommand("arm", "JOINT_POSITION", <<0>>, <<9>>, "reach"),
               MaskedCommand("arm", "JOINT_VELOCITY", <<1, 0>>, <<2, 3>>, "reach"),
               MaskedCommand("arm", "JOINT_TORQUE", <<0>>, <<-5>>, "safety"),
               MaskedCommand("arm", "JOINT_TORQUE", <<0>>, <<4>>, "reach") },
     base |-> { MaskedCommand("base", "JOINT_VELOCITY", <<2>>, <<3>>, "nav"),
                MaskedCommand("base", "JOINT_VELOCITY", <<1>>, <<3>>, "nav"),
                MaskedCommand("base", "JOINT_VELOCITY", <<MaxDof>>, <<3>>, "nav"),
                MaskedCommand("base", "JOINT_POSITION", <<2>>, <<8>>, "nav"),
                MaskedCommand("base", "JOINT_TORQUE", <<2>>, <<1>>, "safety"),
                MaskedCommand("base", "JOINT_TORQUE", <<2>>, <<4>>, "nav") },
     legs |-> { MaskedCommand("legs", "JOINT_VELOCITY", <<0, 1>>, <<-2, -2>>, "gait"),
                MaskedCommand("legs", "JOINT_TORQUE", << >>, << >>, "gait") },
     whole_body |->
              { MaskedCommand("whole_body", "JOINT_VELOCITY", <<0, 1, 2>>,
                              <<1, 1, 1>>, "wb"),
                MaskedCommand("whole_body", "JOINT_TORQUE", <<1>>, <<0>>,
                              "safety") }]

\* every final_by_space: a command of the pool for each space of a subset
BuildFinals ==
    UNION { { f \in [S -> UNION { BuildCommands[sp] : sp \in S }] :
                \A sp \in S : f[sp] \in BuildCommands[sp] } :
            S \in SUBSET Spaces }

BuildSpaceDofs ==
    { [arm |-> <<0, 1>>, base |-> <<2>>],
      [arm |-> <<0>>, legs |-> <<1>>, base |-> <<2>>],
      [arm |-> <<0, MaxDof>>, base |-> <<2>>] }

\* the default policy, a policy that holds the arm by torque and configures
\* no other space, and a policy that configures nothing
BuildHoldPolicies ==
    { default_hold_policy, [arm |-> "JOINT_TORQUE"], EmptyMap }

\* dof_count and now_q: consistent, no joints, and a short now_q
BuildJoints ==
    { <<MaxDof, NowQ>>, <<0, << >> >>, <<MaxDof, Tail(NowQ)>> }

\* the insertion orders of a dictionary that are tried: its keys in
\* ascending and in descending order
KeyOrders(m) ==
    LET up == KeysInOrder(m)
    IN  { up, [k \in 1..Len(up) |-> up[Len(up) + 1 - k]] }

InitBuild ==
    /\ ctrl = ControllerState
    /\ ledger = Ledger
    /\ \E final_by_space \in BuildFinals, joints \in BuildJoints,
          space_dofs \in BuildSpaceDofs, hold_policy \in BuildHoldPolicies,
          allow_safety_torque_stop \in BOOLEAN :
          \E final_keys \in KeyOrders(final_by_space), dofs_keys \in KeyOrders(space_dofs) :
          call = [op |-> "build_args", final_by_space |-> final_by_space,
                  dof_count |-> joints[1], now_q |-> joints[2],
                  space_dofs |-> space_dofs, hold_policy |-> hold_policy,
                  allow_safety_torque_stop |-> allow_safety_torque_stop,
                  final_keys |-> final_keys, dofs_keys |-> dofs_keys]

BuildCall ==
    /\ call.op = "build_args"
    /\ call' = [call EXCEPT !.op = "build"] @@
               [ret |-> build_actuator_targets_v2(call.final_by_space,
                            call.now_q, call.dof_count, call.space_dofs,
                            call.hold_policy, call.allow_safety_torque_stop,
                            call.final_keys, call.dofs_keys)]
    /\ UNCHANGED <<ctrl, ledger>>

NextBuild == BuildCall

SpecBuild == InitBuild /\ [][NextBuild]_vars

-----------------------------------------------------------------------------
(* The data plane as a pipeline: one controller tick on a state with a     *)
(* lease, then, when the tick is ok, the actuator builder on the tick's    *)
(* final_by_space, as the harness does.                                    *)

\* what is proposed to the tick: skill commands of the arm and the base and
\* safety commands of WHOLE_BODY, over one joint and over both
PipeCommands ==
    { MaskedCommand("arm", "JOINT_VELOCITY", <<0>>, <<20>>, "reach"),
      MaskedCommand("base", "JOINT_VELOCITY", <<1>>, <<20>>, "nav"),
      MaskedCommand("arm", "JOINT_VELOCITY", <<0>>, <<0>>, "safety"),
      MaskedCommand("whole_body", "JOINT_VELOCITY", <<1>>, <<0>>, "safety"),
      MaskedCommand("whole_body", "JOINT_VELOCITY", <<0, 1>>, <<0, 0>>, "safety"),
      MaskedCommand("whole_body", "JOINT_VELOCITY", <<0>>, <<0>>, "safety") }

InitPipe ==
    /\ ctrl \in FreshStates
    /\ ledger = Ledger
    /\ \E now_t \in TickTimes, proposals \in SeqsUpTo(PipeCommands, MaxTickProposals) :
          call = [op |-> "step_args", now_t |-> now_t, proposals |-> proposals]

PipeBuildCall ==
    /\ call.op = "step"
    /\ call.ret.ok
    /\ \E allow_safety_torque_stop \in BOOLEAN :
          LET n == Len(LeaseWide.q_min)
          IN  call' = [op |-> "build", final_by_space |-> call.ret.final_by_space,
                       ret |-> build_actuator_targets_v2(call.ret.final_by_space,
                                   [i \in 1..n |-> 4 + i], n, SpaceDofs,
                                   default_hold_policy, allow_safety_torque_stop,
                                   KeysInOrder(call.ret.final_by_space),
                                   KeysInOrder(SpaceDofs))]
    /\ UNCHANGED <<ctrl, ledger>>

NextPipe == StepCall \/ PipeBuildCall

SpecPipe == InitPipe /\ [][NextPipe]_vars

-----------------------------------------------------------------------------
(* The leases of a controller over its lifetime: the entry points of       *)
(* controller.py called in any order at times that do not go back.  call   *)
(* records the last call, the time of the latest call (now) and the        *)
(* highest seq among the leases installed so far (high, 0 when none).      *)

InitLife ==
    /\ ctrl = ControllerState
    /\ ledger = Ledger
    /\ call = [op |-> "init", now |-> 0, high |-> 0]

LifeApplyEstop ==
    /\ ctrl' = apply_estop(ctrl)
    /\ call' = [op |-> "apply_estop", now |-> call.now, high |-> call.high]
    /\ UNCHANGED ledger

LifeClearEstop ==
    /\ ctrl' = clear_estop(ctrl)
    /\ call' = [op |-> "clear_estop", now |-> call.now, high |-> call.high]
    /\ UNCHANGED ledger

LifeInstallLease ==
    \E lease \in LeasePool, now_t \in call.now..MaxTime, envelope \in CtrlEnvelopes :
        LET r == install_lease(ctrl, lease, now_t, envelope)
        IN  /\ ctrl' = r.ctrl
            /\ call' = [op |-> "install_lease", now |-> now_t,
                        high |-> IF r.out THEN Max2(call.high, lease.seq)
                                          ELSE call.high,
                        seq |-> lease.seq, before |-> call.high,
                        held |-> ctrl.active_lease, ret |-> r.out]
            /\ UNCHANGED ledger

LifeTick ==
    \E now_t \in call.now..MaxTime, skills \in SkillLists :
        LET r == step_controller_multi(ctrl, now_t, skills)
        IN  /\ ctrl' = r.ctrl
            /\ call' = [op |-> "tick", now |-> now_t, high |-> call.high,
                        ret |-> r.out]
            /\ UNCHANGED ledger

NextLife ==
    LifeApplyEstop \/ LifeClearEstop \/ LifeInstallLease \/ LifeTick

SpecLife == InitLife /\ [][NextLife]_vars

-----------------------------------------------------------------------------
(* Properties of the controller (Spec) *)

TickFailed(c) ==
    /\ c.op = "tick"
    /\ ~c.ret.ok
    /\ c.ret.final_by_space = EmptyMap

\* C1: E-STOP supremacy.  apply_estop sets the flag and drops the lease;
\* while the flag is set every tick fails with an empty final map and every
\* install_lease returns False; only clear_estop resets the flag; and
\* without a lease every tick fails, a lease coming back only through an
\* install_lease that returns True with the flag reset.
C1_EstopSupremacy ==
    [][ /\ call'.op = "apply_estop" =>
              ctrl'.estop /\ IsNone(ctrl'.active_lease)
        /\ ctrl.estop /\ call'.op = "tick" => TickFailed(call')
        /\ ctrl.estop /\ call'.op = "install_lease" => call'.ret = FALSE
        /\ ctrl.estop /\ ~ctrl'.estop => call'.op = "clear_estop"
        /\ IsNone(ctrl.active_lease) /\ call'.op = "tick" => TickFailed(call')
        /\ IsNone(ctrl.active_lease) /\ ~IsNone(ctrl'.active_lease) =>
              /\ call'.op = "install_lease"
              /\ call'.ret = TRUE
              /\ ~ctrl.estop
      ]_vars

\* a tick rejected after clear_estop, before any lease is installed again,
\* in a controller that had ticked successfully before the E-STOP
C1_Witness ==
    /\ call.op = "tick"
    /\ ~call.ret.ok
    /\ call.ret.reason.tag = "No active lease"
    /\ ~ctrl.estop
    /\ DOMAIN ctrl.last_commands # {}

\* the values of a command respect the lease at their DOF indices
WithinLease(cmd, lease) ==
    \A k \in 1..Len(cmd.dof_mask) :
        LET i == cmd.dof_mask[k] + 1
            v == cmd.values[k]
        IN  IF cmd.kind = "JOINT_POSITION"
            THEN lease.q_min[i] <= v /\ v <= lease.q_max[i]
            ELSE IF cmd.kind = "JOINT_VELOCITY"
            THEN Abs(v) <= lease.qd_abs_max[i]
            ELSE /\ ~IsNone(lease.tau_abs_max)
                 /\ Abs(v) <= Get(lease.tau_abs_max)[i]

\* C2: every successful tick outputs only values that respect the active
\* lease at their DOF index.
C2_BoundsRespected ==
    call.op = "tick" /\ call.ret.ok =>
        /\ ~IsNone(ctrl.active_lease)
        /\ \A s \in DOMAIN call.ret.final_by_space :
              WithinLease(call.ret.final_by_space[s], Get(ctrl.active_lease))

HasAccLimits(c) ==
    /\ ~IsNone(c.active_envelope)
    /\ ~IsNone(Get(c.active_envelope).q_acc_abs_max)

\* C4: dynamics soundness.  The history is the output of the last
\* successful tick (it changes only in a successful tick, to that tick's
\* output, with the time of that tick); and with acceleration limits
\* installed, a successful tick that carries a JOINT_VELOCITY command in a
\* space whose previous output was a JOINT_VELOCITY command changes the
\* value of every DOF present in both masks by at most q_acc_abs_max * dt.
C4_DynamicsSound ==
    [][ /\ call'.op = "tick" /\ call'.ret.ok =>
              /\ ctrl'.last_commands = call'.ret.final_by_space
              /\ ctrl'.last_tick_t = call'.now_t
        /\ ~(call'.op = "tick" /\ call'.ret.ok) =>
              /\ ctrl'.last_commands = ctrl.last_commands
              /\ ctrl'.last_tick_t = ctrl.last_tick_t
        /\ call'.op = "tick" /\ call'.ret.ok /\ HasAccLimits(ctrl) =>
              \A s \in DOMAIN call'.ret.final_by_space \cap DOMAIN ctrl.last_commands :
                  LET new == call'.ret.final_by_space[s]
                      prev == ctrl.last_commands[s]
                      acc == Get(Get(ctrl.active_envelope).q_acc_abs_max)
                      raw == call'.now_t - ctrl.last_tick_t
                      dt == IF raw <= 0 THEN DtFloor
                            ELSE IF raw > DtCap THEN DtCap ELSE raw
                  IN  new.kind = "JOINT_VELOCITY" /\ prev.kind = "JOINT_VELOCITY" =>
                          \A k \in 1..Len(new.dof_mask), j \in 1..Len(prev.dof_mask) :
                              new.dof_mask[k] = prev.dof_mask[j] =>
                                  Abs(new.values[k] - prev.values[j])
                                      <= acc[new.dof_mask[k] + 1] * dt
      ]_vars

\* a successful tick with acceleration limits whose arm velocity is 10, a
\* value that only the dynamics clamp produces (from 20 towards -20 or 0)
C4_Witness ==
    /\ call.op = "tick"
    /\ call.ret.ok
    /\ HasAccLimits(ctrl)
    /\ "arm" \in DOMAIN call.ret.final_by_space
    /\ call.ret.final_by_space["arm"].kind = "JOINT_VELOCITY"
    /\ call.ret.final_by_space["arm"].values = <<10>>

\* C6: lease expiry.  A tick with an installed lease and now_t outside
\* [issued_t, expiry_t] fails with an empty final map and clears the lease;
\* without a lease every tick fails, whatever now_t; and a lease comes back
\* only through an install_lease that returns True.
C6_LeaseExpiry ==
    [][ /\ /\ call'.op = "tick"
           /\ ~IsNone(ctrl.active_lease)
           /\ \/ call'.now_t < Get(ctrl.active_lease).issued_t
              \/ call'.now_t > Get(ctrl.active_lease).expiry_t
           => TickFailed(call') /\ IsNone(ctrl'.active_lease)
        /\ IsNone(ctrl.active_lease) /\ call'.op = "tick" =>
              TickFailed(call') /\ IsNone(ctrl'.active_lease)
        /\ IsNone(ctrl.active_lease) /\ ~IsNone(ctrl'.active_lease) =>
              call'.op = "install_lease" /\ call'.ret = TRUE
      ]_vars

\* a tick that found the lease expired and cleared it, E-STOP not involved
C6_Witness ==
    /\ call.op = "tick"
    /\ call.ret.reason.tag = "Lease expired"
    /\ IsNone(ctrl.active_lease)
    /\ ~ctrl.estop

AllZero(values) == \A k \in 1..Len(values) : values[k] = 0

\* C8: when the hard-stop commands of the safety injector are among the
\* proposals of a successful tick, the final command of every stopped space
\* has source "safety" and only zero values.
C8_HardStopInOneTick ==
    call.op = "tick" /\ call.ret.ok =>
        \A k \in 1..Len(call.injected) :
            LET stop == call.injected[k]
            IN  /\ stop.space \in DOMAIN call.ret.final_by_space
                /\ call.ret.final_by_space[stop.space].source = "safety"
                /\ AllZero(call.ret.final_by_space[stop.space].values)

-----------------------------------------------------------------------------
(* Properties of a single tick (SpecTick) *)

MaskSet(cmd) == Range(cmd.dof_mask)

\* the masks of the commands of a final map are pairwise disjoint
DisjointMasks(final) ==
    \A s1, s2 \in DOMAIN final :
        s1 # s2 => MaskSet(final[s1]) \cap MaskSet(final[s2]) = {}

\* strictly ascending sequence
Ascending(seq) == \A k \in 1..(Len(seq) - 1) : seq[k] < seq[k + 1]

\* the tick of state c at now_t gets as far as the arbiter, which accepts
Arbitrated(c, now_t, proposals) ==
    /\ ~c.estop
    /\ ~IsNone(c.active_lease)
    /\ Get(c.active_lease).issued_t <= now_t
    /\ now_t <= Get(c.active_lease).expiry_t
    /\ arbitrate_multi(Get(c.active_lease), proposals).ok

\* DOF indices that the selected commands of two spaces share
SharedDofs(sel) ==
    UNION { MaskSet(sel[p[1]]) \cap MaskSet(sel[p[2]]) :
              p \in { q \in (DOMAIN sel) \X (DOMAIN sel) : q[1] # q[2] } }

\* C5 as stated: final masks of a successful tick are pairwise disjoint, and
\* whenever the selected commands of two spaces share a DOF index the tick
\* fails with an empty final map and the reason "DOF conflict" listing the
\* overlapping indices in ascending order.
C5_AsStated ==
    [][ call'.op = "step" =>
          /\ call'.ret.ok => DisjointMasks(call'.ret.final_by_space)
          /\ Arbitrated(ctrl, call'.now_t, call'.proposals) =>
                LET sel == arbitrate_multi(Get(ctrl.active_lease),
                                           call'.proposals).selected_by_space
                IN  SharedDofs(sel) # {} =>
                      /\ ~call'.ret.ok
                      /\ call'.ret.final_by_space = EmptyMap
                      /\ call'.ret.reason.tag = "DOF conflict"
                      /\ call'.ret.reason.overlap # << >>
                      /\ Ascending(call'.ret.reason.overlap)
                      /\ Range(call'.ret.reason.overlap) \subseteq SharedDofs(sel)
      ]_vars

\* C5 amended: as C5, but the reason is "DOF conflict" only when no
\* selected command is rejected by the absolute or the dynamics clamp; when
\* one is, the tick fails with that clamp rejection as its reason.  With
\* exactly two spaces selected the list is exactly their common indices.
C5_ConflictFree ==
    [][ call'.op = "step" =>
          /\ call'.ret.ok => DisjointMasks(call'.ret.final_by_space)
          /\ Arbitrated(ctrl, call'.now_t, call'.proposals) =>
                LET lease == Get(ctrl.active_lease)
                    sel == arbitrate_multi(lease, call'.proposals).selected_by_space
                    dt == TickDt(call'.now_t, ctrl.last_tick_t)
                    clampRejects ==
                        \E s \in DOMAIN sel :
                            IsNone(ClampSpace(ctrl, lease, dt, s, sel[s])[1])
                IN  SharedDofs(sel) # {} =>
                      /\ ~call'.ret.ok
                      /\ call'.ret.final_by_space = EmptyMap
                      /\ IF clampRejects
                         THEN call'.ret.reason.tag
                                  \in {"Abs Clamp reject", "Dyn Clamp reject"}
                         ELSE /\ call'.ret.reason.tag = "DOF conflict"
                              /\ call'.ret.reason.overlap # << >>
                              /\ Ascending(call'.ret.reason.overlap)
                              /\ Range(call'.ret.reason.overlap)
                                     \subseteq SharedDofs(sel)
                              /\ Cardinality(DOMAIN sel) = 2 =>
                                     Range(call'.ret.reason.overlap) = SharedDofs(sel)
      ]_vars

\* a tick rejected for a conflict between the arm on DOF 0 and the base on
\* DOFs (1, 0), reported as [0]
C5_Witness ==
    /\ call.op = "step"
    /\ ~call.ret.ok
    /\ call.ret.reason.tag = "DOF conflict"
    /\ call.ret.reason.overlap = <<0>>
    /\ \E k \in 1..Len(call.proposals) : call.proposals[k].dof_mask = <<1, 0>>

\* C19: the dt that a tick passes to the dynamics clamp is always within
\* [0.001 s, 0.1 s], and no tick fails with BAD_DT ("Invalid time delta").
C19_TimeStepClamped ==
    [][ call'.op = "step" =>
          /\ /\ Arbitrated(ctrl, call'.now_t, call'.proposals)
             /\ ~IsNone(ctrl.active_envelope)
             => /\ DtFloor <= TickDt(call'.now_t, ctrl.last_tick_t)
                /\ TickDt(call'.now_t, ctrl.last_tick_t) <= DtCap
          /\ ~(/\ call'.ret.reason.tag = "Dyn Clamp reject"
               /\ call'.ret.reason.msg = "Invalid time delta")
      ]_vars

\* a tick 0.0001 s after the previous one, rejected by the dynamics clamp
\* for its time step
C19_Witness ==
    /\ call.op = "step"
    /\ ~call.ret.ok
    /\ call.ret.reason.tag = "Dyn Clamp reject"
    /\ call.ret.reason.msg = "Invalid time delta"
    /\ call.now_t - ctrl.last_tick_t = BadDtMax

\* C20: a failed tick returns an empty final map and leaves last_commands,
\* last_tick_t, estop and active_envelope as they were; it leaves
\* active_lease as it was too, unless it found the lease expired, in which
\* case it sets it to None.
C20_FailedTickNoOp ==
    [][ call'.op = "step" /\ ~call'.ret.ok =>
          /\ call'.ret.final_by_space = EmptyMap
          /\ ctrl'.last_commands = ctrl.last_commands
          /\ ctrl'.last_tick_t = ctrl.last_tick_t
          /\ ctrl'.estop = ctrl.estop
          /\ ctrl'.active_envelope = ctrl.active_envelope
          /\ IF call'.ret.reason.tag = "Lease expired"
             THEN /\ IsNone(ctrl'.active_lease)
                  /\ ~IsNone(ctrl.active_lease)
                  /\ ~lease_active(Get(ctrl.active_lease), call'.now_t)
             ELSE ctrl'.active_lease = ctrl.active_lease
      ]_vars

\* a tick with a command history that fails in the conflict check, after
\* both clamps have run on two spaces, at a time later than the last tick
C20_Witness ==
    /\ call.op = "step"
    /\ ~call.ret.ok
    /\ call.ret.reason.tag = "DOF conflict"
    /\ DOMAIN ctrl.last_commands # {}
    /\ ~IsNone(ctrl.active_envelope)
    /\ call.now_t > ctrl.last_tick_t

-----------------------------------------------------------------------------
(* Properties of the monitor registry (SpecAgg) *)

\* the levels in ascending severity
LevelOrder == <<"NONE", "WARN", "STOP", "E_STOP">>

\* the maximum of a non-empty set of levels under NONE < WARN < STOP < E_STOP
MaxLevel(S) ==
    LET pos(level) == CHOOSE k \in 1..Len(LevelOrder) : LevelOrder[k] = level
    IN  CHOOSE level \in S : \A other \in S : pos(other) <= pos(level)

LevelsOf(active_events) ==
    { active_events[k][2].level : k \in 1..Len(active_events) }

\* C21: aggregate returns the maximum of the registered events' levels under
\* NONE < WARN < STOP < E_STOP, whatever the order in which the sources were
\* registered or updated; on an empty registry it returns NONE with reason
\* "no_monitors"; aggregate leaves active_events as it was.
C21_AggregatorWorstCase ==
    [][ call'.op = "aggregate" =>
          /\ call'.active_events = call.active_events
          /\ IF call.active_events = << >>
             THEN /\ call'.ret.level = "NONE"
                  /\ call'.ret.reason = <<"no_monitors">>
             ELSE call'.ret.level = MaxLevel(LevelsOf(call.active_events))
      ]_vars

\* three sources registered in descending order of their ids, the worst
\* level (E_STOP) held by the first source in ascending order only
C21_Witness ==
    /\ call.op = "aggregate"
    /\ Len(call.active_events) = 3
    /\ call.active_events[1][1] = "lidar"
    /\ call.active_events[2][1] = "imu"
    /\ call.active_events[3][2].level = "E_STOP"
    /\ call.active_events[1][2].level = "WARN"
    /\ call.active_events[2][2].level = "STOP"
    /\ call.ret.level = "E_STOP"

\* the "src:reason" strings of the sources at the given level, in ascending
\* order of the source id, from position k of SourceOrder on
RECURSIVE PartsAt(_, _, _)
PartsAt(active_events, level, k) ==
    IF k > Len(SourceOrder) THEN << >>
    ELSE LET src == SourceOrder[k]
             hit == { j \in 1..Len(active_events) :
                        /\ active_events[j][1] = src
                        /\ active_events[j][2].level = level }
             here == IF hit = {} THEN << >>
                     ELSE << <<src, ":">> \o
                             active_events[CHOOSE j \in hit : TRUE][2].reason >>
         IN  here \o PartsAt(active_events, level, k + 1)

\* C22 as stated: for any non-empty registry the aggregated reason is the
\* " | "-join of "src:reason" over exactly the sources at the worst level,
\* in ascending source-id order, whatever that level is.
C22_AsStated ==
    /\ call.op = "aggregate"
    /\ call.active_events # << >>
    => call.ret.reason =
         Join(PartsAt(call.active_events,
                      MaxLevel(LevelsOf(call.active_events)), 1), <<" | ">>)

\* C22: for any non-empty registry whose worst level is WARN, STOP or E_STOP
\* the aggregated reason is the " | "-join of "src:reason" over exactly the
\* sources at the worst level, in ascending source-id order; when every
\* event is at level NONE the aggregated reason is the empty string.
C22_AggregatedReasons ==
    /\ call.op = "aggregate"
    /\ call.active_events # << >>
    => LET worst == MaxLevel(LevelsOf(call.active_events))
       IN  IF worst = "NONE"
           THEN call.ret.reason = << >>
           ELSE call.ret.reason =
                  Join(PartsAt(call.active_events, worst, 1), <<" | ">>)

\* two sources tied at the worst level, registered in descending order of
\* their ids and with different reasons, and a third source below them
C22_Witness ==
    /\ call.op = "aggregate"
    /\ Len(call.active_events) = 3
    /\ call.active_events[1] = <<"lidar", SafetyEvent("STOP", <<"fault">>, None)>>
    /\ call.active_events[2][1] = "imu"
    /\ call.active_events[2][2].level = "WARN"
    /\ call.active_events[3] = <<"cam", SafetyEvent("STOP", <<"margin">>, None)>>
    /\ call.ret.reason =
         <<"cam", ":", "margin", " | ", "lidar", ":", "fault">>

-----------------------------------------------------------------------------
(* Properties of the safety injector (SpecInject) *)

\* the target spaces of the call, as the claim describes them
Targets(c) ==
    IF c.cfg.global_stop \/ IsNone(c.event.affected_spaces)
                         \/ Get(c.event.affected_spaces) = EmptyMap
    THEN DOMAIN c.space_dofs
    ELSE { space \in DOMAIN c.space_dofs :
             space \in DOMAIN Get(c.event.affected_spaces) }

\* the spaces of a command list, in order
SpacesOf(cmds) == [k \in 1..Len(cmds) |-> cmds[k].space]

\* the spaces of S in ascending order of their names
SpacesInOrder(S) ==
    LET F[i \in 0..Len(SpaceOrder)] ==
          IF i = 0 THEN << >>
          ELSE IF SpaceOrder[i] \in S THEN Append(F[i - 1], SpaceOrder[i])
          ELSE F[i - 1]
    IN  F[Len(SpaceOrder)]

\* the commands are from "safety" and mask the DOFs of their spaces
SafetyOverOwnDofs(c) ==
    \A k \in 1..Len(c.ret) :
        /\ c.ret[k].source = "safety"
        /\ c.ret[k].dof_mask = c.space_dofs[c.ret[k].space]

\* C23 as stated: no command for NONE or WARN; for STOP or E_STOP exactly
\* one command per target space, in ascending space-name order, each from
\* "safety" over the DOFs of its space.
C23_AsStated ==
    call.op = "inject" =>
        IF call.event.level \in {"NONE", "WARN"}
        THEN call.ret = << >>
        ELSE /\ SpacesOf(call.ret) = SpacesInOrder(Targets(call))
             /\ SafetyOverOwnDofs(call)

\* C23: no command for NONE or WARN; for STOP or E_STOP exactly one command
\* per target space that has at least one DOF and none for a target space
\* without DOFs, in ascending space-name order, each from "safety" over the
\* DOFs of its space; the target spaces are all spaces of space_dofs if
\* cfg.global_stop or affected_spaces is empty, and otherwise the affected
\* spaces that appear in space_dofs.
C23_InjectorTargeting ==
    call.op = "inject" =>
        IF call.event.level \in {"NONE", "WARN"}
        THEN call.ret = << >>
        ELSE /\ SpacesOf(call.ret) =
                  SpacesInOrder({ space \in Targets(call) :
                                    call.space_dofs[space] # << >> })
             /\ SafetyOverOwnDofs(call)

\* a STOP that is not global, on a partition of three spaces of which two
\* are affected: two commands, arm before legs
C23_Witness ==
    /\ call.op = "inject"
    /\ call.event.level = "STOP"
    /\ ~call.cfg.global_stop
    /\ DOMAIN call.space_dofs = {"arm", "base", "legs"}
    /\ call.event.affected_spaces = Some([legs |-> "slip", arm |-> "too_close"])
    /\ SpacesOf(call.ret) = <<"arm", "legs">>

\* the hard-zero command of a space
HardZero(c, space) ==
    MaskedCommand(space, c.cfg.stop_kind, c.space_dofs[space],
                  [k \in 1..Len(c.space_dofs[space]) |-> 0], "safety")

\* damping is configured and velocities are provided
Damping(c) == c.cfg.damping_gain > 0 /\ ~IsNone(c.current_velocities)

\* every DOF index of the space is within range of current_velocities
InRange(c, space) ==
    \A k \in 1..Len(c.space_dofs[space]) :
        c.space_dofs[space][k] < Len(Get(c.current_velocities))

\* C24: with damping configured and velocities provided, a space whose DOF
\* indices are all in range gets a JOINT_TORQUE command with
\* values[k] = -gain * current_velocities[dof_k]; a space with any DOF index
\* out of range gets the hard-zero command (cfg.stop_kind, all zeros);
\* without damping every space gets the hard-zero command.
C24_DampingRule ==
    call.op = "inject" =>
        \A k \in 1..Len(call.ret) :
            LET cmd == call.ret[k]
                dofs == call.space_dofs[cmd.space]
            IN  IF Damping(call) /\ InRange(call, cmd.space)
                THEN /\ cmd.kind = "JOINT_TORQUE"
                     /\ cmd.values =
                          [j \in 1..Len(dofs) |->
                             -call.cfg.damping_gain *
                              Get(call.current_velocities)[dofs[j] + 1]]
                ELSE cmd = HardZero(call, cmd.space)

\* damping with a velocity vector that covers one of the two arm DOFs only
C24_Witness ==
    /\ call.op = "inject"
    /\ Damping(call)
    /\ "arm" \in DOMAIN call.space_dofs
    /\ call.space_dofs["arm"] = <<0, 1>>
    /\ Len(Get(call.current_velocities)) = 1
    /\ Len(call.ret) >= 1
    /\ call.ret[1].space = "arm"
    /\ call.ret[1].kind = "JOINT_TORQUE"
    /\ call.ret[1].values = <<-5, 0>>

-----------------------------------------------------------------------------
(* Properties of the actuator builder (SpecBuild) *)

\* the commands of a build
CmdsOf(c) == { c.final_by_space[space] : space \in DOMAIN c.final_by_space }

\* the compatibility matrix of the specification
MatrixAllows(cmd) ==
    \/ cmd.space = "arm" /\ cmd.kind \in {"JOINT_POSITION", "JOINT_VELOCITY"}
    \/ cmd.space \in {"legs", "base", "whole_body"} /\ cmd.kind = "JOINT_VELOCITY"

SafetyTorque(cmd) == cmd.kind = "JOINT_TORQUE" /\ cmd.source = "safety"

\* C26: a build is ok only if every command is allowed by the matrix or is
\* a safety-sourced JOINT_TORQUE command under allow_safety_torque_stop; so
\* tau_des never carries a value of a torque command that is not from
\* safety, a failed build has no targets, and without the flag every build
\* with a torque command fails.
C26_CompatibilityMatrix ==
    call.op = "build" =>
        /\ call.ret.ok =>
              \A cmd \in CmdsOf(call) :
                  \/ MatrixAllows(cmd)
                  \/ SafetyTorque(cmd) /\ call.allow_safety_torque_stop
        /\ ~call.ret.ok => IsNone(call.ret.targets)
        /\ call.ret.ok /\ ~IsNone(Get(call.ret.targets).tau_des) =>
              \A i \in 1..call.dof_count :
                  Get(Get(call.ret.targets).tau_des)[i] # 0 =>
                      \E cmd \in CmdsOf(call) :
                          /\ SafetyTorque(cmd)
                          /\ \E k \in 1..Len(cmd.dof_mask) :
                                /\ cmd.dof_mask[k] = i - 1
                                /\ cmd.values[k] = Get(Get(call.ret.targets).tau_des)[i]
        /\ /\ ~call.allow_safety_torque_stop
           /\ \E cmd \in CmdsOf(call) : cmd.kind = "JOINT_TORQUE"
           => ~call.ret.ok

\* a build that succeeds with a safety torque command on the base, which
\* the matrix alone would not allow, written to tau_des
C26_Witness ==
    /\ call.op = "build"
    /\ call.ret.ok
    /\ DOMAIN call.final_by_space = {"base"}
    /\ call.final_by_space["base"].kind = "JOINT_TORQUE"
    /\ Get(call.ret.targets).tau_des = Some(<<0, 0, 1>>)

\* what a build needs apart from the kinds of its commands: consistent
\* joints, some command, WHOLE_BODY on its own, masks within the joints and
\* disjoint, and the DOFs of every space with a hold preference within the
\* joints
WellFormedBuild(c) ==
    /\ c.dof_count > 0
    /\ Len(c.now_q) = c.dof_count
    /\ DOMAIN c.final_by_space # {}
    /\ "whole_body" \in DOMAIN c.final_by_space =>
          DOMAIN c.final_by_space = {"whole_body"}
    /\ \A cmd \in CmdsOf(c) : \A k \in 1..Len(cmd.dof_mask) :
          cmd.dof_mask[k] \in 0..(c.dof_count - 1)
    /\ \A c1, c2 \in CmdsOf(c) :
          c1 # c2 => Range(c1.dof_mask) \cap Range(c2.dof_mask) = {}
    /\ \A space \in DOMAIN c.space_dofs \cap DOMAIN c.hold_policy :
          \A k \in 1..Len(c.space_dofs[space]) :
              c.space_dofs[space][k] \in 0..(c.dof_count - 1)

KindsOf(c) == { cmd.kind : cmd \in CmdsOf(c) }

\* C27: a build with a torque command that is not from safety next to a
\* command of another kind fails; a build whose torque commands are all
\* from safety and mixed with position or velocity commands allowed by the
\* matrix succeeds exactly when allow_safety_torque_stop is true; position
\* and velocity commands allowed by the matrix always build together.
C27_MixedKindPolicy ==
    call.op = "build" =>
        /\ /\ \E cmd \in CmdsOf(call) :
                 cmd.kind = "JOINT_TORQUE" /\ cmd.source # "safety"
           /\ Cardinality(KindsOf(call)) > 1
           => ~call.ret.ok
        /\ /\ WellFormedBuild(call)
           /\ \A cmd \in CmdsOf(call) : MatrixAllows(cmd) \/ SafetyTorque(cmd)
           => IF "JOINT_TORQUE" \in KindsOf(call)
              THEN call.ret.ok = call.allow_safety_torque_stop
              ELSE call.ret.ok

\* the build of the test: a velocity command of the base next to a safety
\* torque command of the arm, accepted under the flag, both vectors present
C27_Witness ==
    /\ call.op = "build"
    /\ call.ret.ok
    /\ call.allow_safety_torque_stop
    /\ DOMAIN call.final_by_space = {"arm", "base"}
    /\ call.final_by_space["arm"].kind = "JOINT_TORQUE"
    /\ call.final_by_space["base"].kind = "JOINT_VELOCITY"
    /\ Get(call.ret.targets).qd_des = Some(<<0, 0, 3>>)
    /\ Get(call.ret.targets).tau_des = Some(<<-5, 0, 0>>)

\* the DOFs masked by some command
Commanded(c) == UNION { Range(cmd.dof_mask) : cmd \in CmdsOf(c) }

\* a vector of the targets is as C28 says for its kind and HOLD identity
VectorAsClaimed(c, vec, kind, identity) ==
    /\ ~IsNone(vec) <=>
          \/ \E cmd \in CmdsOf(c) : cmd.kind = kind
          \/ \E space \in DOMAIN c.space_dofs :
                /\ space \in DOMAIN c.hold_policy
                /\ c.hold_policy[space] = kind
                /\ Range(c.space_dofs[space]) \ Commanded(c) # {}
    /\ ~IsNone(vec) =>
          /\ Len(Get(vec)) = c.dof_count
          /\ \A i \in 1..c.dof_count :
                LET at == { <<cmd, k>> \in CmdsOf(c) \X (1..c.dof_count) :
                              /\ cmd.kind = kind
                              /\ k <= Len(cmd.dof_mask)
                              /\ cmd.dof_mask[k] = i - 1 }
                IN  IF at = {} THEN Get(vec)[i] = identity[i]
                    ELSE \A pair \in at : Get(vec)[i] = pair[1].values[pair[2]]

\* C28: in a successful build each of q_des, qd_des and tau_des is present
\* iff some command has its kind or some space of space_dofs that prefers
\* to hold by its kind owns a DOF that no command masks; a present vector
\* carries the commanded value where a command of its kind masks the index
\* and the HOLD identity elsewhere (now_q in q_des, 0 in qd_des and tau_des).
C28_HoldAndMerge ==
    call.op = "build" /\ call.ret.ok =>
        LET t == Get(call.ret.targets)
            zeros == [i \in 1..call.dof_count |-> 0]
        IN  /\ VectorAsClaimed(call, t.q_des, "JOINT_POSITION", call.now_q)
            /\ VectorAsClaimed(call, t.qd_des, "JOINT_VELOCITY", zeros)
            /\ VectorAsClaimed(call, t.tau_des, "JOINT_TORQUE", zeros)

\* the build of the test: only a velocity command of the base, the arm held
\* in position by the default policy
C28_Witness ==
    /\ call.op = "build"
    /\ call.ret.ok
    /\ call.hold_policy = default_hold_policy
    /\ DOMAIN call.final_by_space = {"base"}
    /\ call.final_by_space["base"].kind = "JOINT_VELOCITY"
    /\ Get(call.ret.targets).q_des = Some(call.now_q)
    /\ Get(call.ret.targets).qd_des = Some(<<0, 0, 3>>)
    /\ IsNone(Get(call.ret.targets).tau_des)


\* C31: the result of the builder (ok, reason and targets) is the same for
\* every insertion order of the entries of final_by_space and space_dofs.
C31_ByteStableBuild ==
    call.op = "build" /\ "final_keys" \in DOMAIN call =>
        \A final_keys \in KeyOrders(call.final_by_space), dofs_keys \in KeyOrders(call.space_dofs) :
            build_actuator_targets_v2(call.final_by_space, call.now_q,
                call.dof_count, call.space_dofs, call.hold_policy,
                call.allow_safety_torque_stop, final_keys, dofs_keys) = call.ret

\* two velocity commands that overlap on joints 0 and 1, the legs inserted
\* before the arm: the overlap is reported at index 1, and at index 0 for
\* the same entries inserted in ascending order
C31_Witness ==
    /\ call.op = "build"
    /\ DOMAIN call.final_by_space = {"arm", "legs"}
    /\ call.final_keys = <<"legs", "arm">>
    /\ call.final_by_space["arm"].dof_mask = <<1, 0>>
    /\ call.final_by_space["legs"].dof_mask = <<0, 1>>
    /\ call.ret.reason = [msg |-> "DOF overlap detected at index", arg |-> 1]
    /\ build_actuator_targets_v2(call.final_by_space, call.now_q,
           call.dof_count, call.space_dofs, call.hold_policy,
           call.allow_safety_torque_stop, <<"arm", "legs">>,
           call.dofs_keys).reason
         = [msg |-> "DOF overlap detected at index", arg |-> 0]

-----------------------------------------------------------------------------
(* Properties of the pipeline (SpecPipe) *)

\* C29: the builder returns ok = false and no targets whenever
\* final_by_space holds WHOLE_BODY together with another space, so a tick
\* that selects WHOLE_BODY and another space never yields actuator targets.
C29_WholeBodyExclusive ==
    /\ call.op = "build"
    /\ "whole_body" \in DOMAIN call.final_by_space
    /\ DOMAIN call.final_by_space # {"whole_body"}
    => /\ ~call.ret.ok
       /\ IsNone(call.ret.targets)

\* a tick accepted WHOLE_BODY and the arm on disjoint joints, and the build
\* on its output was refused for the exclusivity of WHOLE_BODY
C29_Witness ==
    /\ call.op = "build"
    /\ DOMAIN call.final_by_space = {"arm", "whole_body"}
    /\ call.final_by_space["arm"].source = "reach"
    /\ ~call.ret.ok
    /\ call.ret.reason.msg = "WHOLE_BODY is exclusive; other spaces present"

-----------------------------------------------------------------------------
(* Properties of the ledger and the gate (SpecLedger) *)

Applied(c) == c.op = "apply" /\ ~c.raised

Replayed(l, action) ==
    /\ ~IsNone(action.action_id)
    /\ Get(action.action_id) \in l.seen_action_ids

\* C9 as stated: the gate decision for an action whose action_id was
\* applied before is ORDER_VIOLATION whatever the kind of the action, and
\* no action_id is applied twice.
C9_AsStated ==
    [][ /\ call'.op = "gate" /\ Replayed(ledger, call'.action) =>
              /\ ~call'.ret.raised
              /\ ~call'.ret.ok
              /\ call'.ret.reject_code = "ORDER_VIOLATION"
        /\ Applied(call') => ~Replayed(ledger, call'.action)
      ]_vars

\* C9 amended: the same for every action other than EMERGENCY_STOP.
C9_LedgerIdempotency ==
    [][ /\ /\ call'.op = "gate"
           /\ call'.action.kind # "EMERGENCY_STOP"
           /\ Replayed(ledger, call'.action)
           => /\ ~call'.ret.raised
              /\ ~call'.ret.ok
              /\ call'.ret.reject_code = "ORDER_VIOLATION"
        /\ Applied(call') /\ call'.action.kind # "EMERGENCY_STOP" =>
              ~Replayed(ledger, call'.action)
      ]_vars

\* a replayed action with the right seq, rejected by the gate for the
\* replay alone
C9_Witness ==
    /\ call.op = "gate"
    /\ call.action.kind = "ENABLE_SKILL"
    /\ call.action.seq = ledger.last_seq + 1
    /\ Replayed(ledger, call.action)
    /\ call.ret.reject_code = "ORDER_VIOLATION"

\* C10: last_seq never decreases and seen_action_ids only grows; can_apply
\* and gate change nothing; an applied action other than EMERGENCY_STOP
\* carries seq = last_seq + 1 and moves last_seq to it; an applied
\* EMERGENCY_STOP leaves last_seq alone; an action other than
\* EMERGENCY_STOP with another seq is not applicable: can_apply is False,
\* apply raises and changes nothing, and the gate answers ORDER_VIOLATION.
C10_LedgerMonotone ==
    [][ /\ ledger'.last_seq >= ledger.last_seq
        /\ ledger.seen_action_ids \subseteq ledger'.seen_action_ids
        /\ call'.op \in {"gate", "can_apply"} => ledger' = ledger
        /\ Applied(call') /\ call'.action.kind # "EMERGENCY_STOP" =>
              /\ call'.action.seq = ledger.last_seq + 1
              /\ ledger'.last_seq = ledger.last_seq + 1
        /\ Applied(call') /\ call'.action.kind = "EMERGENCY_STOP" =>
              ledger'.last_seq = ledger.last_seq
        /\ /\ call'.op \in {"gate", "can_apply", "apply"}
           /\ call'.action.kind # "EMERGENCY_STOP"
           /\ call'.action.seq # ledger.last_seq + 1
           => /\ call'.op = "can_apply" => call'.ret = FALSE
              /\ call'.op = "apply" => call'.raised /\ ledger' = ledger
              /\ call'.op = "gate" =>
                    ~call'.ret.ok /\ call'.ret.reject_code = "ORDER_VIOLATION"
      ]_vars

\* the last of MaxSeq applied actions other than EMERGENCY_STOP, two of
\* the applied actions carrying an action_id
C10_Witness ==
    /\ call.op = "apply"
    /\ ~call.raised
    /\ call.action.kind = "SET_PHASE"
    /\ call.action.seq = MaxSeq
    /\ ledger.last_seq = MaxSeq
    /\ Cardinality(ledger.seen_action_ids) = 2

\* C12: the gate is side-effect-free.  A gate call, accepted or rejected,
\* leaves last_seq and seen_action_ids (and the controller) as they were, so
\* can_apply of every action, and the decision of the gate consulted again
\* for the same action, are the same after the call as before it.
C12_GateSideEffectFree ==
    [][ call'.op = "gate" =>
          /\ ledger'.last_seq = ledger.last_seq
          /\ ledger'.seen_action_ids = ledger.seen_action_ids
          /\ ctrl' = ctrl
          /\ \A a \in LedgerActions :
                can_apply(ledger', a) = can_apply(ledger, a)
          /\ \A state \in GateSnapshots, envelope \in GateEnvelopes :
                gate(state, call'.action, envelope, ledger', EnabledSkills)
                  = gate(state, call'.action, envelope, ledger, EnabledSkills)
      ]_vars

\* the gate has accepted an action with an action_id on a ledger that has
\* applied an action before, and the ledger still waits for that seq
C12_Witness ==
    /\ call.op = "gate"
    /\ call.ret.ok
    /\ call.action.kind = "SET_PHASE"
    /\ call.action.action_id = Some("b")
    /\ call.action.seq = ledger.last_seq + 1
    /\ ledger.seen_action_ids = {"a"}

-----------------------------------------------------------------------------
(* Properties of one gate decision (SpecDecide) *)

IsEstop(action) == action.kind = "EMERGENCY_STOP"

Replay(l, action) ==
    ~IsNone(action.action_id) /\ Get(action.action_id) \in l.seen_action_ids

\* C11: the gate accepts an EMERGENCY_STOP action (ok, code OK, nothing
\* raised) and can_apply holds for it, whatever the snapshot, the envelope,
\* the ledger, the seq and the action_id; applying it raises nothing and
\* leaves last_seq unchanged.
C11_EstopAccepted ==
    [][ /\ call'.op = "gate" /\ IsEstop(call'.action) =>
              /\ ~call'.ret.raised
              /\ call'.ret.ok
              /\ call'.ret.reject_code = "OK"
              /\ can_apply(ledger, call'.action)
        /\ call'.op = "commit" /\ IsEstop(call'.action) =>
              /\ ~call'.raised
              /\ ledger'.last_seq = ledger.last_seq
      ]_vars

\* an EMERGENCY_STOP with a replayed action_id and a seq out of order,
\* accepted and applied on a skewed and stale snapshot of another scope
C11_Witness ==
    /\ call.op = "commit"
    /\ IsEstop(call.action)
    /\ call.action.action_id = Some("a")
    /\ call.action.seq = 1
    /\ ledger.last_seq = 1
    /\ ~StartsWith(call.state.env_fingerprint, call.envelope.env_scope_prefix)
    /\ ~snapshot_time_ok(call.state, call.envelope)[1]

\* the timestamps of the five fields of a snapshot
FieldTimes(state) ==
    {state.joints_q.t, state.joints_qd.t, state.ee_pose.t, state.contacts.t,
     state.perception_trust.t}

TMin(state) == SetMin(FieldTimes(state))

TMax(state) == SetMax(FieldTimes(state))

\* the checks of the gate in the order of the claim, each with its code and
\* with whether the input fails it
GateChecks(state, action, env, l) ==
    LET q == state.joints_q.value
        qd == state.joints_qd.value
        n == Len(env.qd_abs_max)
        ee == state.ee_pose.value
        zones == IF IsNone(env.exclusion_zones) THEN << >>
                 ELSE Get(env.exclusion_zones)
        rules == action_ok(state, action, env, EnabledSkills)
    IN  << <<"ORDER_VIOLATION",
             action.seq # l.last_seq + 1 \/ Replay(l, action)>>,
           <<"ENV_SCOPE_MISMATCH",
             ~StartsWith(state.env_fingerprint, env.env_scope_prefix)>>,
           <<"SNAPSHOT_SKEW", TMax(state) - TMin(state) > env.max_snapshot_skew_s>>,
           <<"SNAPSHOT_STALE",
             state.t_kernel - TMin(state) > env.max_state_staleness_s>>,
           <<"SNAPSHOT_FUTURE", TMax(state) > state.t_kernel + FutureTolerance>>,
           <<"PERCEPTION_DEGRADED",
             state.perception_trust.value = "DEGRADED"
                 /\ ~env.allow_new_commits_when_degraded>>,
           <<"PERCEPTION_UNTRUSTED",
             state.perception_trust.value = "UNTRUSTED"
                 /\ ~env.allow_new_commits_when_untrusted>>,
           <<"DOF_MISMATCH",
             Len(q) # Len(env.q_min) \/ Len(q) # Len(env.q_max) \/ Len(q) # n>>,
           <<"JOINT_LIMIT",
             \E i \in 1..Min2(Len(q), n) : q[i] < env.q_min[i] \/ q[i] > env.q_max[i]>>,
           <<"JOINT_VELOCITY",
             \E i \in 1..Min2(Len(qd), n) : Abs(qd[i]) > env.qd_abs_max[i]>>,
           <<"EE_WORKSPACE",
             ~IsNone(ee) /\ ~InBox(Get(ee), env.ee_xyz_min, env.ee_xyz_max)>>,
           <<"EE_IN_ZONE",
             ~IsNone(ee) /\ \E z \in 1..Len(zones) :
                                InBox(Get(ee), zones[z][1], zones[z][2])>>,
           <<rules[2], ~rules[1]>> >>

\* the code of the earliest failing check, "OK" when no check fails
FirstFailure(checks) ==
    LET failing == { k \in 1..Len(checks) : checks[k][2] }
    IN  IF failing = {} THEN "OK" ELSE checks[SetMin(failing)][1]

\* C13: for an action other than EMERGENCY_STOP the gate returns a decision
\* whose reject_code is that of the earliest failing check, and which is ok
\* with code OK exactly when no check fails.
C13_FirstFailureWins ==
    call.op = "gate" /\ ~IsEstop(call.action) =>
        LET first == FirstFailure(GateChecks(call.state, call.action,
                                             call.envelope, ledger))
        IN  /\ ~call.ret.raised
            /\ call.ret.reject_code = first
            /\ call.ret.ok <=> (first = "OK")

\* the same for the calls in which the gate returns a decision; it raises
\* exactly when no check before the velocity check fails, the velocity
\* vector is longer than qd_abs_max and none of its entries is over its limit
C13_FirstFailureWhenDecided ==
    call.op = "gate" /\ ~IsEstop(call.action) =>
        LET checks == GateChecks(call.state, call.action, call.envelope, ledger)
            first == FirstFailure(checks)
            early == FirstFailure(SubSeq(checks, 1, 10))
        IN  /\ call.ret.raised <=>
                  /\ early = "OK"
                  /\ Len(call.state.joints_qd.value) > Len(call.envelope.qd_abs_max)
            /\ ~call.ret.raised =>
                  /\ call.ret.reject_code = first
                  /\ call.ret.ok <=> (first = "OK")

\* the gate raises on a fresh in-bounds snapshot whose velocity vector has
\* three entries, for an action that names an unknown skill
C13_Witness ==
    /\ call.op = "gate"
    /\ call.ret.raised
    /\ call.action.kind = "ENABLE_SKILL"
    /\ call.action.skill_name = Some("fly")
    /\ call.state.joints_qd.value = <<0, 0, 0>>

Accepted(c) ==
    /\ c.op = "gate"
    /\ ~IsEstop(c.action)
    /\ ~c.ret.raised
    /\ c.ret.ok

\* C14 as stated: whenever the gate accepts an action other than
\* EMERGENCY_STOP, the timestamps of the snapshot satisfy
\* t_max - t_min <= max_snapshot_skew_s,
\* t_kernel - t_min <= max_state_staleness_s and t_max <= t_kernel.
C14_AsStated ==
    Accepted(call) =>
        /\ TMax(call.state) - TMin(call.state) <= call.envelope.max_snapshot_skew_s
        /\ call.state.t_kernel - TMin(call.state)
               <= call.envelope.max_state_staleness_s
        /\ TMax(call.state) <= call.state.t_kernel

\* C14 amended: the same with t_max <= t_kernel + 1 microsecond.
C14_SnapshotFresh ==
    Accepted(call) =>
        /\ TMax(call.state) - TMin(call.state) <= call.envelope.max_snapshot_skew_s
        /\ call.state.t_kernel - TMin(call.state)
               <= call.envelope.max_state_staleness_s
        /\ TMax(call.state) <= call.state.t_kernel + FutureTolerance

\* an action accepted on a snapshot with a field dated 1 microsecond after
\* t_kernel
C14_Witness ==
    /\ Accepted(call)
    /\ TMax(call.state) = call.state.t_kernel + FutureTolerance

\* C15: the gate accepts an action other than EMERGENCY_STOP only if the
\* joint vector of the snapshot has the DOF count of the envelope, every
\* joint position lies in [q_min[i], q_max[i]], every joint velocity of the
\* snapshot has |qd[i]| <= qd_abs_max[i], and an end effector that is
\* present lies inside the workspace box and outside every exclusion box.
C15_StateBoundsAdmission ==
    Accepted(call) =>
        LET q == call.state.joints_q.value
            qd == call.state.joints_qd.value
            ee == call.state.ee_pose.value
            env == call.envelope
            zones == IF IsNone(env.exclusion_zones) THEN << >>
                     ELSE Get(env.exclusion_zones)
        IN  /\ Len(q) = Len(env.q_min)
            /\ Len(q) = Len(env.q_max)
            /\ Len(q) = Len(env.qd_abs_max)
            /\ \A i \in 1..Len(q) : env.q_min[i] <= q[i] /\ q[i] <= env.q_max[i]
            /\ \A i \in 1..Len(qd) :
                  i <= Len(env.qd_abs_max) /\ Abs(qd[i]) <= env.qd_abs_max[i]
            /\ ~IsNone(ee) =>
                  /\ \A k \in 1..3 :
                        env.ee_xyz_min[k] <= Get(ee)[k] /\ Get(ee)[k] <= env.ee_xyz_max[k]
                  /\ \A z \in 1..Len(zones) :
                        \E k \in 1..3 : \/ Get(ee)[k] < zones[z][1][k]
                                        \/ Get(ee)[k] > zones[z][2][k]

\* an action accepted under an envelope with an exclusion zone, on a
\* snapshot with two joint velocities and an end effector
C15_Witness ==
    /\ Accepted(call)
    /\ ~IsNone(call.envelope.exclusion_zones)
    /\ ~IsNone(call.state.ee_pose.value)
    /\ Len(call.state.joints_qd.value) = Len(call.envelope.qd_abs_max)

\* the snapshot with VALID perception
Trusted(state) == [state EXCEPT !.perception_trust.value = "VALID"]

\* C17: an action other than EMERGENCY_STOP that passes the ordering, scope
\* and snapshot-time checks is rejected with PERCEPTION_DEGRADED when trust
\* is DEGRADED and the envelope does not allow commits when degraded, and
\* with PERCEPTION_UNTRUSTED when trust is UNTRUSTED and the envelope does
\* not allow commits when untrusted; when the envelope allows them, the
\* decision is the one the same input gets with VALID perception.
C17_PerceptionTrustGating ==
    call.op = "gate" /\ ~IsEstop(call.action) =>
        LET env == call.envelope
            trust == call.state.perception_trust.value
            checks == GateChecks(call.state, call.action, env, ledger)
            early == FirstFailure(SubSeq(checks, 1, 5)) = "OK"
        IN  /\ early /\ trust = "DEGRADED" /\ ~env.allow_new_commits_when_degraded =>
                  /\ ~call.ret.raised
                  /\ ~call.ret.ok
                  /\ call.ret.reject_code = "PERCEPTION_DEGRADED"
            /\ early /\ trust = "UNTRUSTED" /\ ~env.allow_new_commits_when_untrusted =>
                  /\ ~call.ret.raised
                  /\ ~call.ret.ok
                  /\ call.ret.reject_code = "PERCEPTION_UNTRUSTED"
            /\ \/ trust = "DEGRADED" /\ env.allow_new_commits_when_degraded
               \/ trust = "UNTRUSTED" /\ env.allow_new_commits_when_untrusted
               => call.ret = gate(Trusted(call.state), call.action, env, ledger,
                                  EnabledSkills)

\* DEGRADED perception rejected on a snapshot that also has a joint out of
\* range
C17_Witness ==
    /\ call.op = "gate"
    /\ call.ret.reject_code = "PERCEPTION_DEGRADED"
    /\ call.state.joints_q.value = <<30, 0>>

-----------------------------------------------------------------------------
(* Properties of a chain of gate decisions (SpecChain) *)

IdlePhases == {"IDLE", "RECOVERY"}

\* C16: the gate accepts ENABLE_SKILL and APPLY_ENVELOPE only in phase IDLE
\* or RECOVERY, and rejects them with PHASE_RULE in the other phases when
\* nothing else is wrong; it accepts SET_PHASE only along an allowed phase
\* edge, and rejects it with PHASE_EDGE otherwise when nothing else is
\* wrong; and the phase moves only by an accepted SET_PHASE, along an
\* allowed edge.
C16_PhaseRules ==
    [][ call'.op = "submit" =>
          LET a == call'.action
              d == call'.ret
              inOrder == a.seq = ledger.last_seq + 1
              edge == <<call.phase, Get(a.next_phase)>>
          IN  /\ ~d.raised
              /\ a.kind \in {"ENABLE_SKILL", "APPLY_ENVELOPE"} =>
                    /\ d.ok => call.phase \in IdlePhases
                    /\ inOrder /\ call.phase \notin IdlePhases =>
                          ~d.ok /\ d.reject_code = "PHASE_RULE"
              /\ a.kind = "SET_PHASE" =>
                    /\ d.ok => edge \in BaseEnvelope.allowed_phase_edges
                    /\ inOrder /\ edge \notin BaseEnvelope.allowed_phase_edges =>
                          ~d.ok /\ d.reject_code = "PHASE_EDGE"
              /\ call'.phase # call.phase =>
                    /\ a.kind = "SET_PHASE" /\ d.ok
                    /\ <<call.phase, call'.phase>> \in BaseEnvelope.allowed_phase_edges
      ]_vars

\* the third accepted SET_PHASE of a chain, which has reached GRASP
C16_Witness ==
    /\ call.op = "submit"
    /\ call.action.kind = "SET_PHASE"
    /\ call.ret.ok
    /\ call.phase = "GRASP"
    /\ ledger.last_seq = 3

-----------------------------------------------------------------------------
(* Properties of one install_lease (SpecInstall) *)

\* C18: install_lease returns False and leaves the controller state as it
\* was when estop is set, or now_t is outside [issued_t, expiry_t], or a
\* lease is installed whose seq is >= the seq of the new lease; otherwise
\* it returns True, sets active_lease and active_envelope to its arguments
\* and leaves estop, last_commands and last_tick_t as they were.
C18_LeaseInstallRules ==
    [][ call'.op = "install" =>
          LET lease == call'.lease
              refused ==
                  \/ ctrl.estop
                  \/ call'.now_t < lease.issued_t
                  \/ call'.now_t > lease.expiry_t
                  \/ /\ ~IsNone(ctrl.active_lease)
                     /\ Get(ctrl.active_lease).seq >= lease.seq
          IN  IF refused
              THEN call'.ret = FALSE /\ ctrl' = ctrl
              ELSE /\ call'.ret = TRUE
                   /\ ctrl'.active_lease = Some(lease)
                   /\ ctrl'.active_envelope = call'.envelope
                   /\ ctrl'.estop = ctrl.estop
                   /\ ctrl'.last_commands = ctrl.last_commands
                   /\ ctrl'.last_tick_t = ctrl.last_tick_t
      ]_vars

\* a lease active at now_t refused, without E-STOP, because the installed
\* lease has the same seq; the controller has a command history
C18_Witness ==
    /\ call.op = "install"
    /\ call.ret = FALSE
    /\ ~ctrl.estop
    /\ call.lease.issued_t <= call.now_t
    /\ call.now_t <= call.lease.expiry_t
    /\ ~IsNone(ctrl.active_lease)
    /\ Get(ctrl.active_lease).seq = call.lease.seq
    /\ Get(ctrl.active_lease) # call.lease
    /\ DOMAIN ctrl.last_commands # {}

-----------------------------------------------------------------------------
(* Properties of the absolute clamp (SpecClamp) *)

\* v limited to the interval [lo, hi], lo <= hi
LimitedTo(v, lo, hi) == IF v < lo THEN lo ELSE IF v > hi THEN hi ELSE v

\* the limits that apply to a command of the given kind, as <<lo, hi>>
LimitsFor(kind, lease) ==
    IF kind = "JOINT_POSITION" THEN <<lease.q_min, lease.q_max>>
    ELSE IF kind = "JOINT_VELOCITY"
    THEN <<[i \in 1..Len(lease.qd_abs_max) |-> 0 - lease.qd_abs_max[i]],
           lease.qd_abs_max>>
    ELSE <<[i \in 1..Len(Get(lease.tau_abs_max)) |-> 0 - Get(lease.tau_abs_max)[i]],
           Get(lease.tau_abs_max)>>

\* the returned command is the input command with every value limited to
\* the lease limits of its DOF index
ClampedCopy(cmd, lease, ret) ==
    /\ ~IsNone(ret[1])
    /\ ret[2].ok
    /\ Get(ret[1]).space = cmd.space
    /\ Get(ret[1]).kind = cmd.kind
    /\ Get(ret[1]).dof_mask = cmd.dof_mask
    /\ Get(ret[1]).source = cmd.source
    /\ Len(Get(ret[1]).values) = Len(cmd.values)
    /\ \A k \in 1..Len(cmd.dof_mask) :
          Get(ret[1]).values[k] =
              LimitedTo(cmd.values[k],
                        LimitsFor(cmd.kind, lease)[1][cmd.dof_mask[k] + 1],
                        LimitsFor(cmd.kind, lease)[2][cmd.dof_mask[k] + 1])

LeaseConsistent(lease) ==
    /\ Len(lease.q_max) = Len(lease.q_min)
    /\ Len(lease.qd_abs_max) = Len(lease.q_min)

MaskInRange(cmd, lease) ==
    \A k \in 1..Len(cmd.dof_mask) : cmd.dof_mask[k] < Len(lease.q_min)

TorqueGranted(lease) ==
    /\ ~IsNone(lease.tau_abs_max)
    /\ Len(Get(lease.tau_abs_max)) = Len(lease.q_min)

Rejected(ret, code) == IsNone(ret[1]) /\ ~ret[2].ok /\ ret[2].code = code

\* C3 as stated: for a lease with consistent q_min, q_max and qd_abs_max and
\* a command with every DOF index below the DOF count, the clamp returns the
\* clamped copy of the command, whatever its kind; inconsistent vectors give
\* LEASE_SHAPE and an index out of range gives DOF_OOB, with no command.
C3_AsStated ==
    call.op = "clamp" =>
        /\ ~LeaseConsistent(call.lease) => Rejected(call.ret, "LEASE_SHAPE")
        /\ LeaseConsistent(call.lease) /\ ~MaskInRange(call.cmd, call.lease)
              => Rejected(call.ret, "DOF_OOB")
        /\ LeaseConsistent(call.lease) /\ MaskInRange(call.cmd, call.lease)
              => ClampedCopy(call.cmd, call.lease, call.ret)

\* C3 amended: as C3, but a JOINT_TORQUE command gets its clamped copy only
\* when the lease carries tau_abs_max of the lease's DOF count; without
\* tau_abs_max no command is returned (TORQUE_NOT_ALLOWED), and with a
\* tau_abs_max of another length none either (LEASE_SHAPE).
C3_ClampSound ==
    call.op = "clamp" =>
        /\ ~LeaseConsistent(call.lease) => Rejected(call.ret, "LEASE_SHAPE")
        /\ LeaseConsistent(call.lease) /\ ~MaskInRange(call.cmd, call.lease)
              => Rejected(call.ret, "DOF_OOB")
        /\ LeaseConsistent(call.lease) /\ MaskInRange(call.cmd, call.lease)
              => IF call.cmd.kind # "JOINT_TORQUE" \/ TorqueGranted(call.lease)
                 THEN ClampedCopy(call.cmd, call.lease, call.ret)
                 ELSE IF IsNone(call.lease.tau_abs_max)
                 THEN Rejected(call.ret, "TORQUE_NOT_ALLOWED")
                 ELSE Rejected(call.ret, "LEASE_SHAPE")

\* a torque command with mask (1, 0) whose two values were both changed by
\* the limits of a three-DOF lease
C3_Witness ==
    /\ call.op = "clamp"
    /\ call.cmd.kind = "JOINT_TORQUE"
    /\ call.cmd.dof_mask = <<1, 0>>
    /\ call.cmd.values = <<-30, 8>>
    /\ ~IsNone(call.ret[1])
    /\ Get(call.ret[1]).values = <<-5, 4>>

-----------------------------------------------------------------------------
(* Properties of the arbiter (SpecArb) *)

\* positions of the safety proposals of a space in the proposals list
SafetyPositions(proposals, space) ==
    { k \in 1..Len(proposals) :
        proposals[k].space = space /\ proposals[k].source = "safety" }

\* C7: a space with exactly one safety proposal gets that proposal whenever
\* the decision is ok, whatever else is proposed and in whatever order; a
\* space with two or more safety proposals makes the decision fail.
C7_SafetyOverride ==
    call.op = "arbitrate" =>
        \A space \in Spaces :
            LET at == SafetyPositions(call.proposals, space)
            IN  /\ Cardinality(at) = 1 /\ call.ret.ok =>
                      /\ space \in DOMAIN call.ret.selected_by_space
                      /\ \A k \in at :
                            call.ret.selected_by_space[space] = call.proposals[k]
                /\ Cardinality(at) >= 2 => ~call.ret.ok

\* an accepted decision in which the safety proposal of the arm comes after
\* a proposal of the arm's primary authority
C7_Witness ==
    /\ call.op = "arbitrate"
    /\ call.ret.ok
    /\ Len(call.proposals) >= 2
    /\ call.proposals[1].space = "arm" /\ call.proposals[1].source = "reach"
    /\ call.proposals[2].space = "arm" /\ call.proposals[2].source = "safety"
    /\ call.ret.selected_by_space["arm"] = call.proposals[2]

\* the positions of the proposals of a space
PositionsOf(proposals, space) ==
    { k \in 1..Len(proposals) : proposals[k].space = space }

\* the primary authority of a space is declared in the lease
Declared(lease, space) ==
    /\ ~IsNone(lease.primary_authority)
    /\ space \in DOMAIN Get(lease.primary_authority)

\* the positions of the proposals of a space made by its primary authority
PrimaryPositions(lease, proposals, space) ==
    { k \in PositionsOf(proposals, space) :
        proposals[k].source = Get(lease.primary_authority)[space] }

\* C25: for a space that has proposals but no safety proposal, an undeclared
\* primary authority makes the decision fail; with the authority declared,
\* zero proposals from it leave the space out of an ok selection, exactly
\* one is selected, more than one fails the decision.  The decision fails
\* when nothing is selected (so for an empty proposals list), and a failed
\* decision has an empty selection.
C25_ArbiterPrimaryRule ==
    call.op = "arbitrate" =>
        LET ret == call.ret
            sel == ret.selected_by_space
        IN  /\ ~ret.ok => sel = EmptyMap
            /\ ret.ok => DOMAIN sel # {}
            /\ call.proposals = << >> => ~ret.ok
            /\ \A space \in Spaces :
                  PositionsOf(call.proposals, space) = {} /\ ret.ok
                      => space \notin DOMAIN sel
            /\ \A space \in Spaces :
                  /\ PositionsOf(call.proposals, space) # {}
                  /\ SafetyPositions(call.proposals, space) = {}
                  => IF ~Declared(call.lease, space) THEN ~ret.ok
                     ELSE LET at == PrimaryPositions(call.lease, call.proposals, space)
                          IN  /\ Cardinality(at) >= 2 => ~ret.ok
                              /\ Cardinality(at) = 0 /\ ret.ok
                                    => space \notin DOMAIN sel
                              /\ Cardinality(at) = 1 /\ ret.ok
                                    => /\ space \in DOMAIN sel
                                       /\ \A k \in at : sel[space] = call.proposals[k]

\* an accepted decision in which the arm is proposed by a source that is not
\* its primary authority and stays unselected, while the base is selected
C25_Witness ==
    /\ call.op = "arbitrate"
    /\ call.ret.ok
    /\ Len(call.proposals) = 2
    /\ call.proposals[1].space = "arm" /\ call.proposals[1].source = "rogue"
    /\ call.proposals[2].space = "base" /\ call.proposals[2].source = "nav"
    /\ DOMAIN call.ret.selected_by_space = {"base"}

-----------------------------------------------------------------------------
(* Properties of one tick (SpecTick), continued *)

\* the proposal is from "safety" or from the primary authority of its space
Authorized(lease, p) ==
    \/ p.source = "safety"
    \/ /\ Declared(lease, p.space)
       /\ p.source = Get(lease.primary_authority)[p.space]

\* the proposals from "safety" and from the primary authorities only
AuthorizedOnly(lease, proposals) ==
    SelectSeq(proposals, LAMBDA p : Authorized(lease, p))

\* every command of the output is from "safety" or from the authority of
\* its space
SourcesAuthorized(lease, final) ==
    \A space \in DOMAIN final :
        /\ final[space].space = space
        /\ Authorized(lease, final[space])

\* C32 as stated: the commands of a successful tick are from "safety" or
\* from the primary authority of their space, and the tick outputs the
\* commands it outputs without the proposals of the other sources.
C32_AsStated ==
    [][ call'.op = "step" /\ ~IsNone(ctrl.active_lease) =>
          LET lease == Get(ctrl.active_lease)
              alone == step_controller_multi(ctrl, call'.now_t,
                           AuthorizedOnly(lease, call'.proposals))
          IN  /\ call'.ret.ok => SourcesAuthorized(lease, call'.ret.final_by_space)
              /\ call'.ret.ok = alone.out.ok
              /\ call'.ret.final_by_space = alone.out.final_by_space
      ]_vars

\* some proposal is from another source, for a space that has no declared
\* authority and no safety proposal
Orphan(lease, proposals) ==
    \E k \in 1..Len(proposals) :
        /\ ~Authorized(lease, proposals[k])
        /\ ~Declared(lease, proposals[k].space)
        /\ SafetyPositions(proposals, proposals[k].space) = {}

\* C32: the commands of a successful tick are from "safety" or from the
\* primary authority of their space; the proposals of other sources leave
\* the output and the state reached as they are without them, unless one of
\* them is for a space with no declared authority and no safety proposal,
\* in which case the tick is not ok.
C32_AuthorityInvariant ==
    [][ call'.op = "step" /\ ~IsNone(ctrl.active_lease) =>
          LET lease == Get(ctrl.active_lease)
              alone == step_controller_multi(ctrl, call'.now_t,
                           AuthorizedOnly(lease, call'.proposals))
          IN  /\ call'.ret.ok => SourcesAuthorized(lease, call'.ret.final_by_space)
              /\ IF Orphan(lease, call'.proposals)
                 THEN ~call'.ret.ok
                 ELSE call'.ret = alone.out /\ ctrl' = alone.ctrl
      ]_vars

\* a successful tick whose first proposal is a rogue command for the arm and
\* whose second is the command of the arm's authority, which is output
C32_Witness ==
    /\ call.op = "step"
    /\ call.ret.ok
    /\ Len(call.proposals) = 2
    /\ call.proposals[1].source = "rogue"
    /\ call.proposals[2].source = "reach"
    /\ call.proposals[2].space = "arm"
    /\ call.ret.final_by_space["arm"].source = "reach"

\* the list with the entries at positions i and i + 1 exchanged
Exchanged(proposals, i) ==
    [k \in 1..Len(proposals) |->
        IF k = i THEN proposals[i + 1]
        ELSE IF k = i + 1 THEN proposals[i]
        ELSE proposals[k]]

\* C33: a tick returns the same output (ok, reason, final_by_space) and
\* reaches the same state when two neighbouring proposals are exchanged, and
\* so for every permutation of the proposals list.
C33_ProposalOrderIndependence ==
    [][ call'.op = "step" =>
          \A i \in 1..(Len(call'.proposals) - 1) :
              LET other == step_controller_multi(ctrl, call'.now_t,
                               Exchanged(call'.proposals, i))
              IN  other.out = call'.ret /\ other.ctrl = ctrl'
      ]_vars

\* a successful tick in which the safety proposal for the arm comes after
\* the proposal of the arm's authority and is the one output
C33_Witness ==
    /\ call.op = "step"
    /\ call.ret.ok
    /\ Len(call.proposals) = 2
    /\ call.proposals[1].space = "arm"
    /\ call.proposals[1].source = "reach"
    /\ call.proposals[2].space = "arm"
    /\ call.proposals[2].source = "safety"
    /\ call.ret.final_by_space["arm"].source = "safety"

-----------------------------------------------------------------------------
(* Properties of the controller over its lifetime (Spec), continued *)

\* C34: in every state reached from the empty state by install_lease,
\* ticks, apply_estop and clear_estop, estop set means no active lease; the
\* flag is reset by clear_estop only, which installs nothing, and a lease
\* appears only through an install_lease that returns True with the flag
\* reset.
C34_EstopDropsLease ==
    [][ /\ ctrl.estop => IsNone(ctrl.active_lease)
        /\ ctrl'.estop => IsNone(ctrl'.active_lease)
        /\ ctrl.estop /\ ~ctrl'.estop =>
              call'.op = "clear_estop" /\ IsNone(ctrl'.active_lease)
        /\ ctrl.active_lease # ctrl'.active_lease /\ ~IsNone(ctrl'.active_lease) =>
              /\ call'.op = "install_lease"
              /\ call'.ret = TRUE
              /\ ~ctrl.estop /\ ~ctrl'.estop
      ]_vars

\* an install_lease refused during an E-STOP that dropped the lease of a
\* controller which had ticked successfully
C34_Witness ==
    /\ call.op = "install_lease"
    /\ call.ret = FALSE
    /\ ctrl.estop
    /\ IsNone(ctrl.active_lease)
    /\ DOMAIN ctrl.last_commands # {}

-----------------------------------------------------------------------------
(* Properties of the leases over the lifetime (SpecLife) *)

\* C35: once a lease with seq s has been installed, no lease with
\* seq <= s is installed afterwards, whether or not the active lease was
\* cleared in between by expiry or by apply_estop and clear_estop.
C35_LeaseSeqMonotone ==
    [][ call'.op = "install_lease" /\ call'.ret = TRUE =>
            call'.seq > call.high
      ]_vars

\* an install_lease that returns True for a lease whose seq is not above the
\* highest seq installed before, no lease being held at the call
C35_Witness ==
    /\ call.op = "install_lease"
    /\ call.ret = TRUE
    /\ call.before > 0
    /\ call.seq <= call.before
    /\ IsNone(call.held)

-----------------------------------------------------------------------------
(* Properties of one tick (SpecTick): the history *)

-----------------------------------------------------------------------------
(* Properties of the monitor registry and the injector (SpecAgg) *)

\* the registered events of level STOP or E_STOP without affected spaces:
\* injected alone, each of them stops every space
StopsEverySpace(active_events) ==
    { k \in 1..Len(active_events) :
        LET evt == active_events[k][2]
        IN  /\ evt.level \in {"STOP", "E_STOP"}
            /\ \/ IsNone(evt.affected_spaces)
               \/ DOMAIN Get(evt.affected_spaces) = {} }

\* the spaces of the partition with a non-empty DOF tuple
SpacesWithDofs(space_dofs) ==
    { space \in DOMAIN space_dofs : space_dofs[space] # << >> }

\* the spaces for which the injector emits a command for the event
Stopped(event, space_dofs, cfg) ==
    Range(SpacesOf(safety_injector(event, space_dofs, cfg, None)))

\* C37: with global_stop false, when some registered event of level STOP or
\* E_STOP has no affected spaces, injecting the aggregated event gives a
\* safety command for every space of space_dofs with a non-empty DOF tuple.
C37_WorstCaseSpaces ==
    call.op = "aggregate" /\ StopsEverySpace(call.active_events) # {} =>
        \A space_dofs \in InjectSpaceDofs, cfg \in InjectConfigs :
            ~cfg.global_stop =>
                SpacesWithDofs(space_dofs) \subseteq Stopped(call.ret, space_dofs, cfg)

\* a registry with a STOP event without affected spaces whose aggregate
\* names the arm only, so that the injector leaves the base alone
C37_Witness ==
    /\ call.op = "aggregate"
    /\ StopsEverySpace(call.active_events) # {}
    /\ call.ret.level = "STOP"
    /\ ~IsNone(call.ret.affected_spaces)
    /\ Stopped(call.ret, [arm |-> <<0, 1>>, base |-> <<2>>],
               SafetyInjectorConfig("JOINT_VELOCITY", 0, FALSE)) = {"arm"}

-----------------------------------------------------------------------------
(* Properties of the safety injector (SpecInject), continued *)

\* C38: for an event of level STOP or E_STOP, whatever the configuration
\* and the affected map, safety_injector returns at least one command, all
\* from "safety", when space_dofs has a space with a non-empty DOF tuple.
C38_StopNeverDropped ==
    /\ call.op = "inject"
    /\ call.event.level \in {"STOP", "E_STOP"}
    /\ SpacesWithDofs(call.space_dofs) # {}
    => /\ Len(call.ret) >= 1
       /\ \A k \in 1..Len(call.ret) : call.ret[k].source = "safety"

\* a STOP whose affected map names a space that space_dofs does not have,
\* injected without global_stop over a partition of two spaces with DOFs:
\* nothing is returned
C38_Witness ==
    /\ call.op = "inject"
    /\ call.event.level = "STOP"
    /\ ~call.cfg.global_stop
    /\ call.event.affected_spaces = Some([gripper |-> "jam"])
    /\ call.space_dofs = [arm |-> <<0, 1>>, base |-> <<2>>]
    /\ call.ret = << >>

-----------------------------------------------------------------------------
(* Properties of one tick (SpecTick): torque *)

\* the spaces whose selected command is a torque command
TorqueSpaces(sel) == { s \in DOMAIN sel : sel[s].kind = "JOINT_TORQUE" }

\* the tick got as far as the clamp loop under a lease without tau_abs_max,
\* with a torque command among the selected ones
TorqueWithoutGrant(c, now_t, proposals) ==
    /\ Arbitrated(c, now_t, proposals)
    /\ IsNone(Get(c.active_lease).tau_abs_max)
    /\ TorqueSpaces(arbitrate_multi(Get(c.active_lease), proposals).selected_by_space) # {}

\* the reason of the tick for a torque command of the space that the lease
\* does not permit
TorqueReject(space) ==
    Reason("Abs Clamp reject", space, "Torque not permitted by lease", << >>)

SpacePos(space) == CHOOSE i \in 1..Len(SpaceOrder) : SpaceOrder[i] = space

-----------------------------------------------------------------------------
(* Properties of one gate decision (SpecDecide), continued *)

\* C40: the gate returns a decision on every snapshot and envelope and never
\* raises; and for an action other than EMERGENCY_STOP that passes the
\* checks before the state bounds, a snapshot whose joints_qd is not as long
\* as the envelope's qd_abs_max is rejected with DOF_MISMATCH.
C40_GateTotal ==
    call.op = "gate" =>
        /\ ~call.ret.raised
        /\ ( /\ ~IsEstop(call.action)
             /\ Len(call.state.joints_qd.value) # Len(call.envelope.qd_abs_max)
             /\ FirstFailure(SubSeq(GateChecks(call.state, call.action,
                                               call.envelope, ledger), 1, 7)) = "OK" )
           => /\ ~call.ret.ok
              /\ call.ret.reject_code = "DOF_MISMATCH"

\* a decision that accepts an action on a snapshot whose velocity vector has
\* one entry, the envelope having two DOFs
C40_Witness ==
    /\ call.op = "gate"
    /\ ~call.ret.raised
    /\ call.ret.ok
    /\ ~IsEstop(call.action)
    /\ call.state.joints_qd.value = <<0>>
    /\ Len(call.envelope.qd_abs_max) = 2

====
